---- MODULE Spec2Model ----
(***************************************************************************)
(* A model of the CIBIL report extraction engine                           *)
(* (src/cibil/services/extractor.py).                                      *)
(*                                                                         *)
(* Representation.                                                         *)
(*  - A delinquency token is a string ("000", "std", "015", "-").          *)
(*  - A stored DPD string (the ' '.join of tokens the extractors keep in   *)
(*    dpd_history[year]) is the sequence of the joined tokens.             *)
(*  - A year label is the number its four digits spell; the label          *)
(*    "UNKNOWN" is a number above every four-digit label, since sorted()   *)
(*    puts a string that starts with a letter after every digit string.    *)
(*  - dpd_history, a dict whose key order the converters see, is the       *)
(*    sequence of its items <<year label, stored DPD string>> in insertion *)
(*    order; the empty dict is the empty sequence.                         *)
(*  - Python's None is the empty sequence and a present value v is <<v>>.  *)
(*  - A text whose characters the code looks at (a line of a document, an  *)
(*    amount, a date, a name of a file) is a string, and a pattern of the  *)
(*    source is the tree of its text, matched as re matches it. A line of  *)
(*    a document is the record of its text and of what the patterns the    *)
(*    code applies to single lines find in it.                             *)
(*  - A float that the code rounds to one decimal is the integer number of *)
(*    tenths (3.0 is 30, 20.7 is 207); sums and quotients of such floats   *)
(*    are computed as the doubles of the code (section Floats).            *)
(***************************************************************************)
EXTENDS Integers, Sequences, FiniteSets, TLC

VARIABLES
    pc,            \* position of the running call
    file,          \* the path handed to CIBILDataExtractor.extract and what it holds
    invoked,       \* the segmenters invoked so far, in order
    outcome,       \* how extract ended: "" (running), an exception name or "returned"
    report,        \* the report extract returned
    dpd_history,   \* one account's DPD history: the items <<year label, stored DPD string>>
    derived,       \* what the account-level functions computed from dpd_history
    accounts,      \* the account list handed to the document-level aggregation
    final_default, \* _calculate_dynamic_final_default_month(accounts)
    all_enquiries, \* the enquiries handed to the latest-month filter
    latest,        \* what the two enquiry paths returned
    now,           \* the day datetime.now() reports: <<year, month, day>>
    table_cibil,   \* the rows of public.table_cibil, in insertion order
    processed_data,\* the objects under processed-data/: key -> the date of the report
    result,        \* the dict the last process_single_file returned
    calls,         \* the collaborator calls the last process_single_file made
    scan,          \* a scanning loop: its lines, its index and what it has collected
    dump,          \* a call of dump_files: the clock, the raw objects and its lists
    workers        \* the process_single_file calls that run at the same time

vars == <<pc, file, invoked, outcome, report, dpd_history, derived, accounts,
          final_default, all_enquiries, latest, now,
          table_cibil, processed_data, result, calls, scan, dump, workers>>

\* the state of the orchestrator (src/cibil/services/processor.py)
procVars == <<table_cibil, processed_data, result, calls>>

\* the state of the scanning loops, of the dumper and of concurrent calls
restVars == <<scan, dump, workers>>

(***************************************************************************)
(* Bounds of the model.                                                    *)
(***************************************************************************)
\* the most tokens a DPD history of the account-level specification stores
MaxTokens == 3

\* the most accounts of a list handed to the document-level aggregation
MaxAccounts == 6

\* the most dates of an enquiries section
MaxEnquiries == 4

\* the most account blocks of a markup document
MaxBlocks == 2

\* the most lines of a page-text document
MaxPdfLines == 4

(***************************************************************************)
(* Generic helpers.                                                        *)
(***************************************************************************)
None == <<>>

Some(v) == <<v>>

Min(S) == CHOOSE x \in S : \A y \in S : x <= y

Max(S) == CHOOSE x \in S : \A y \in S : y <= x

RECURSIVE SumSeq(_)
SumSeq(s) == IF s = <<>> THEN 0 ELSE Head(s) + SumSeq(Tail(s))

RECURSIVE SetToSortedSeq(_)
\* sorted(S): the elements of a set of numbers in ascending order
SetToSortedSeq(S) ==
    IF S = {} THEN <<>> ELSE <<Min(S)>> \o SetToSortedSeq(S \ {Min(S)})

(***************************************************************************)
(* A dict whose key order the code can see (dpd_history, which the         *)
(* converters walk with items() and values()) is the sequence of its       *)
(* items <<key, value>> in insertion order, no key twice.                  *)
(***************************************************************************)
\* key in d is key \in KeySet(d)
KeySet(d) == {d[i][1] : i \in 1..Len(d)}

\* d[key] for a key of d
Item(d, key) == d[CHOOSE i \in 1..Len(d) : d[i][1] = key][2]

\* d[key] = value: a key d holds keeps its place, a new key goes last
SetItem(d, key, value) ==
    IF key \in KeySet(d)
    THEN [i \in 1..Len(d) |-> IF d[i][1] = key THEN <<key, value>> ELSE d[i]]
    ELSE Append(d, <<key, value>>)

\* the mapping key -> value of d: what d == other compares
AsMap(d) == [key \in KeySet(d) |-> Item(d, key)]

RECURSIVE Orders(_)
\* the lists that hold every element of S once
Orders(S) ==
    IF S = {} THEN {<<>>}
    ELSE UNION {{<<x>> \o rest : rest \in Orders(S \ {x})} : x \in S}

(***************************************************************************)
(* Text. A str is a string; its characters are counted from 1.             *)
(***************************************************************************)
\* the character at position p (the empty text outside the text)
At(text, p) == IF p >= 1 /\ p <= Len(text) THEN SubSeq(text, p, p) ELSE ""

\* text[a - 1:b - 1]
Slice(text, a, b) == IF b <= a THEN "" ELSE SubSeq(text, a, b - 1)

\* the set of the characters of a text
CharsOf(text) == {At(text, p) : p \in 1..Len(text)}

LowerCase == "abcdefghijklmnopqrstuvwxyz"

UpperCase == "ABCDEFGHIJKLMNOPQRSTUVWXYZ"

Digits == CharsOf("0123456789")

\* what \s matches
Spaces == {" ", "\t", "\n", "\r", "\f"}

\* what \w matches
WordChars == CharsOf(LowerCase) \cup CharsOf(UpperCase) \cup Digits \cup {"_"}

ToLower == [c \in CharsOf(UpperCase) |-> At(LowerCase, CHOOSE i \in 1..26 : At(UpperCase, i) = c)]

ToUpper == [c \in CharsOf(LowerCase) |-> At(UpperCase, CHOOSE i \in 1..26 : At(LowerCase, i) = c)]

\* the character map[c] of a character c that map changes, else c
Mapped(map, c) == IF c \in DOMAIN map THEN map[c] ELSE c

RECURSIVE MapChars(_, _, _, _)
\* the characters a..b of a text, each one mapped
MapChars(text, map, a, b) ==
    IF a > b THEN ""
    ELSE IF a = b THEN Mapped(map, At(text, a))
    ELSE MapChars(text, map, a, (a + b) \div 2) \o MapChars(text, map, (a + b) \div 2 + 1, b)

\* str.lower and str.upper
Lower(text) == MapChars(text, ToLower, 1, Len(text))

Upper(text) == MapChars(text, ToUpper, 1, Len(text))

\* the positions of text outside chars, from position from on
Outside(text, chars, from) == {p \in from..Len(text) : At(text, p) \notin chars}

\* text[a - 1:b - 1] for the first and last position of inked, the empty
\* text without any
Trimmed(text, inked) == IF inked = {} THEN "" ELSE SubSeq(text, Min(inked), Max(inked))

\* str.strip
Strip(text) == Trimmed(text, Outside(text, Spaces, 1))

RECURSIVE JoinRange(_, _, _, _)
\* sep.join(texts[a - 1:b])
JoinRange(texts, sep, a, b) ==
    IF a > b THEN ""
    ELSE IF a = b THEN texts[a]
    ELSE JoinRange(texts, sep, a, (a + b) \div 2) \o sep
            \o JoinRange(texts, sep, (a + b) \div 2 + 1, b)

\* sep.join(texts)
Join(texts, sep) == JoinRange(texts, sep, 1, Len(texts))

RECURSIVE ConcatRange(_, _, _)
\* the concatenation of the lists lists[a], ..., lists[b]
ConcatRange(lists, a, b) ==
    IF a > b THEN <<>>
    ELSE IF a = b THEN lists[a]
    ELSE ConcatRange(lists, a, (a + b) \div 2) \o ConcatRange(lists, (a + b) \div 2 + 1, b)

\* the concatenation of a list of lists
Concat(lists) == ConcatRange(lists, 1, Len(lists))

(***************************************************************************)
(* Regular expressions. A pattern is the tree of its source text; Match    *)
(* gives the ways a pattern matches at a position in the order in which    *)
(* the backtracking matcher of re tries them, so the first one is the      *)
(* match re reports. The sources repeat character classes only.            *)
(***************************************************************************)
Lit(text) == [t |-> "lit", s |-> text, i |-> FALSE]

In(chars) == [t |-> "in", cs |-> chars, neg |-> FALSE, i |-> FALSE]

NotIn(chars) == [t |-> "in", cs |-> chars, neg |-> TRUE, i |-> FALSE]

Cat(xs) == [t |-> "seq", xs |-> xs]

Alt(xs) == [t |-> "alt", xs |-> xs]

\* x{lo,hi} for a class x, hi = -1 for no upper limit; lazy for x{lo,hi}?
Rep(x, lo, hi, lazy) == [t |-> "rep", x |-> x, lo |-> lo, hi |-> hi, lazy |-> lazy]

Star(x) == Rep(x, 0, -1, FALSE)

Plus(x) == Rep(x, 1, -1, FALSE)

Opt(x) == Rep(x, 0, 1, FALSE)

LazyStar(x) == Rep(x, 0, -1, TRUE)

LazyPlus(x) == Rep(x, 1, -1, TRUE)

Times(x, n) == Rep(x, n, n, FALSE)

\* the capturing group number n
Group(n, x) == [t |-> "group", n |-> n, x |-> x]

\* \b
WordBoundary == [t |-> "b"]

\* ^ and $ without re.M
StartOfText == [t |-> "start"]

EndOfText == [t |-> "end"]

\* (?=x)
Ahead(x) == [t |-> "ahead", x |-> x]

\* \d, \s and . under re.S
Digit == In(Digits)

Space == In(Spaces)

AnyChar == NotIn({})

RECURSIVE Fold(_)
\* the pattern under re.I: its letters in lower case, to be compared with
\* the lower-cased characters of the text
Fold(x) ==
    CASE x.t = "lit" -> [x EXCEPT !.s = Lower(x.s), !.i = TRUE]
      [] x.t = "in" -> [x EXCEPT !.cs = {Lower(c) : c \in x.cs}, !.i = TRUE]
      [] x.t \in {"seq", "alt"} -> [x EXCEPT !.xs = [k \in 1..Len(x.xs) |-> Fold(x.xs[k])]]
      [] x.t \in {"rep", "group", "ahead"} -> [x EXCEPT !.x = Fold(x.x)]
      [] OTHER -> x

\* re.compile(pattern, re.I) and re.compile(pattern)
IgnoreCase(x) == Fold(x)

CaseSensitive(x) == x

\* the most groups of a pattern
MaxGroups == 6

\* a matcher state: the position reached and the spans of the groups set
\* so far (<<0, 0>>: not set)
StartAt(p) == [p |-> p, g |-> [n \in 1..MaxGroups |-> <<0, 0>>]]

IsWordAt(text, p) == At(text, p) # "" /\ At(text, p) \in WordChars

\* the character c as a node compares it
Seen(x, c) == IF x.i THEN Mapped(ToLower, c) ELSE c

\* a class matches the character at position p
InClass(x, text, p) == p <= Len(text) /\ ((Seen(x, At(text, p)) \in x.cs) # x.neg)

\* the first position from p on that the class x does not match, at most
\* limit
RunEnd(x, text, p, limit) == Min({q \in p..limit : q = limit \/ ~InClass(x, text, q)})

\* the most rounds of the repetition x from position p
MostRounds(x, text, p) ==
    RunEnd(x.x, text, p, IF x.hi >= 0 /\ p + x.hi <= Len(text) THEN p + x.hi ELSE Len(text) + 1) - p

\* the states after lo..most rounds of a class from st: the greedy
\* repetition tries the most rounds first, the lazy one the fewest
RepStates(x, st, most) ==
    IF most < x.lo THEN <<>>
    ELSE [j \in 1..(most - x.lo + 1) |->
            [st EXCEPT !.p = @ + (IF x.lazy THEN x.lo + j - 1 ELSE most - j + 1)]]

\* the group n spans from position p to where each state of sts stands
SetGroup(sts, n, p) == [j \in 1..Len(sts) |-> [sts[j] EXCEPT !.g[n] = <<p, sts[j].p>>]]

RECURSIVE Match(_, _, _), MatchSeq(_, _, _, _)

\* x from every state of sts, in order
MatchEach(x, text, sts) == Concat([j \in 1..Len(sts) |-> Match(x, text, sts[j])])

\* the states after x matched from state st, in the order of trial
Match(x, text, st) ==
    CASE x.t = "lit" ->
            IF /\ st.p + Len(x.s) - 1 <= Len(text)
               /\ \A j \in 1..Len(x.s) : Seen(x, At(text, st.p + j - 1)) = At(x.s, j)
            THEN <<[st EXCEPT !.p = @ + Len(x.s)]>> ELSE <<>>
      [] x.t = "in" -> IF InClass(x, text, st.p) THEN <<[st EXCEPT !.p = @ + 1]>> ELSE <<>>
      [] x.t = "seq" -> MatchSeq(x.xs, 1, text, <<st>>)
      [] x.t = "alt" -> Concat([k \in 1..Len(x.xs) |-> Match(x.xs[k], text, st)])
      [] x.t = "rep" -> RepStates(x, st, MostRounds(x, text, st.p))
      [] x.t = "group" -> SetGroup(Match(x.x, text, st), x.n, st.p)
      [] x.t = "b" ->
            IF IsWordAt(text, st.p - 1) # IsWordAt(text, st.p) THEN <<st>> ELSE <<>>
      [] x.t = "start" -> IF st.p = 1 THEN <<st>> ELSE <<>>
      [] x.t = "end" ->
            IF st.p = Len(text) + 1 \/ (st.p = Len(text) /\ At(text, st.p) = "\n")
            THEN <<st>> ELSE <<>>
      [] x.t = "ahead" -> IF Match(x.x, text, st) # <<>> THEN <<st>> ELSE <<>>

MatchSeq(xs, k, text, sts) ==
    IF k > Len(xs) \/ sts = <<>> THEN sts
    ELSE MatchSeq(xs, k + 1, text, MatchEach(xs[k], text, sts))

\* a match object (None is <<>>): its span and the spans of its groups
MatchObject(p, ends) ==
    IF ends = <<>> THEN <<>> ELSE <<[start |-> p, end |-> ends[1].p, g |-> ends[1].g]>>

\* pattern.match(text, p - 1)
MatchAt(re, text, p) == MatchObject(p, Match(re, text, StartAt(p)))

\* the match at the first of the positions hits
FirstOf(re, text, hits) == IF hits = {} THEN <<>> ELSE MatchAt(re, text, Min(hits))

\* the first match that starts at one of the positions starts
SearchIn(re, text, starts) ==
    FirstOf(re, text, {p \in starts : Match(re, text, StartAt(p)) # <<>>})

\* pattern.search(text, from - 1)
SearchFrom(re, text, from) == SearchIn(re, text, from..(Len(text) + 1))

Search(re, text) == SearchFrom(re, text, 1)

\* m.group(n): None (<<>>) for a group that took no part, else <<text>>
GroupOf(m, text, n) ==
    IF n = 0 THEN <<Slice(text, m.start, m.end)>>
    ELSE IF m.g[n][1] = 0 THEN <<>> ELSE <<Slice(text, m.g[n][1], m.g[n][2])>>

RECURSIVE FindFrom(_, _, _)
\* the match m and the matches after it
FindNext(re, text, m) ==
    IF m = <<>> THEN <<>>
    ELSE m \o FindFrom(re, text, IF m[1].end > m[1].start THEN m[1].end ELSE m[1].end + 1)

FindFrom(re, text, from) == FindNext(re, text, SearchFrom(re, text, from))

\* pattern.finditer(text): the matches from left to right, none overlapping
FindIter(re, text) == FindFrom(re, text, 1)

\* the texts of group n (0: the whole match) of the matches found
GroupTexts(found, text, n) ==
    [j \in 1..Len(found) |->
        IF GroupOf(found[j], text, n) = <<>> THEN "" ELSE GroupOf(found[j], text, n)[1]]

\* pattern.findall(text) for a pattern with the one group n (0: no group)
FindAll(re, text, n) == GroupTexts(FindIter(re, text), text, n)

(***************************************************************************)
(* The patterns of the source.                                             *)
(***************************************************************************)
\* DPD_TOKEN_RE: \b(?:000|XXX|STD|-|\d{3})\b under re.I
DPD_TOKEN_RE ==
    IgnoreCase(Cat(<<WordBoundary,
                     Alt(<<Lit("000"), Lit("XXX"), Lit("STD"), Lit("-"), Times(Digit, 3)>>),
                     WordBoundary>>))

\* [:\s]*
ColonsAndSpaces == Star(In({":"} \cup Spaces))

\* \d{2}-\d{2}-\d{4}
DashedDate == Cat(<<Times(Digit, 2), Lit("-"), Times(Digit, 2), Lit("-"), Times(Digit, 4)>>)

\* [\d,]+
DigitsAndCommas == Plus(In(Digits \cup {","}))

\* ^\s*(\d{4})\s*$ under re.I
year_pattern ==
    IgnoreCase(Cat(<<StartOfText, Star(Space), Group(1, Times(Digit, 4)), Star(Space), EndOfText>>))

\* the patterns of _extract_accounts_from_html, each under re.I
html_patterns ==
    [date_opened |->
        IgnoreCase(Cat(<<Lit("DATE Opened"), ColonsAndSpaces,
                         Group(1, LazyPlus(NotIn({"\n", "|"})))>>)),
     date_closed |->
        IgnoreCase(Cat(<<Lit("DATE CLOSED"), ColonsAndSpaces,
                         Group(1, LazyPlus(NotIn({"\n", "|"})))>>)),
     date_reported |->
        IgnoreCase(Cat(<<Lit("DATE REPORTED"), Star(NotIn({":", "\n"})), ColonsAndSpaces,
                         Group(1, LazyPlus(NotIn({"\n", "|"})))>>)),
     status |->
        IgnoreCase(Cat(<<WordBoundary,
                         Group(1, Alt(<<Lit("inactive"), Lit("active"), Lit("STD"), Lit("NA"),
                                        Lit("STANDARD")>>)),
                         WordBoundary>>)),
     account_type |->
        IgnoreCase(Cat(<<Lit("ACCOUNT TYPE"), Star(Space), Lit(":"), Star(Space),
                         Group(1, LazyPlus(NotIn({"\n", ":"})))>>)),
     member_name |->
        IgnoreCase(Cat(<<Lit("MEMBER NAME"), Star(Space), Lit(":"), Star(Space),
                         Group(1, LazyPlus(NotIn({"\n", ":"})))>>)),
     sanctioned_amount |->
        IgnoreCase(Cat(<<Lit("sanctioned amouNT"), Star(Space), Lit(":"), Star(Space),
                         Opt(In({"₹"})), Star(Space), Group(1, LazyPlus(NotIn({"\n", ":"})))>>)),
     current_balance |->
        IgnoreCase(Cat(<<Lit("current balance"), Star(Space), Lit(":"), Star(Space),
                         Opt(In({"₹"})), Star(Space), Group(1, LazyPlus(NotIn({"\n", ":"})))>>))]

\* the field_patterns of _extract_pdf_account_metadata, each under re.I
field_patterns ==
    [member_name |->
        IgnoreCase(Cat(<<Lit("MEMBER NAME"), ColonsAndSpaces, Group(1, Plus(NotIn({"\n"})))>>)),
     date_opened |->
        IgnoreCase(Cat(<<Lit("OPENED"), ColonsAndSpaces, Group(1, DashedDate)>>)),
     date_closed |->
        IgnoreCase(Cat(<<Lit("CLOSED"), ColonsAndSpaces, Group(1, DashedDate)>>)),
     sanctioned_amount |->
        IgnoreCase(Cat(<<Lit("SANCTIONED"), ColonsAndSpaces, Opt(In({"₹"})),
                         Group(1, DigitsAndCommas)>>)),
     current_balance |->
        IgnoreCase(Cat(<<Lit("CURRENT BALANCE"), ColonsAndSpaces, Opt(In({"₹"})),
                         Group(1, DigitsAndCommas)>>)),
     overdue_amount |->
        IgnoreCase(Cat(<<Lit("OVERDUE"), ColonsAndSpaces, Opt(In({"₹"})),
                         Group(1, DigitsAndCommas)>>)),
     account_type |->
        IgnoreCase(Cat(<<Lit("TYPE"), ColonsAndSpaces, Group(1, Plus(NotIn({"\n"})))>>)),
     date_reported |->
        IgnoreCase(Cat(<<Lit("REPORTED AND CERTIFIED"), ColonsAndSpaces,
                         Group(1, DashedDate)>>))]

\* CIBILExtractor._patterns
_patterns ==
    [overdue_count |-> IgnoreCase(Cat(<<Lit("OVERDUE"), ColonsAndSpaces, Group(1, Plus(Digit))>>)),
     overdue_amount |->
        IgnoreCase(Cat(<<Lit("OVERDUE"), ColonsAndSpaces, Group(1, DigitsAndCommas)>>)),
     current_amount |->
        IgnoreCase(Cat(<<Lit("CURRENT"), ColonsAndSpaces, Group(1, DigitsAndCommas)>>)),
     dpd_header |->
        IgnoreCase(Cat(<<Lit("DAYS"), Plus(Space), Lit("PAST"), Plus(Space),
                         Lit("DUE/ASSET"), Plus(Space), Lit("CLASSIFICATION")>>)),
     status_token |->
        CaseSensitive(Cat(<<WordBoundary,
                            Group(1, Alt(<<Lit("STD"), Lit("XXX"), Times(Digit, 3)>>)),
                            WordBoundary>>)),
     month_token |->
        CaseSensitive(Cat(<<WordBoundary,
                            Group(1, Cat(<<Times(Digit, 2), Lit("-"), Times(Digit, 2)>>)),
                            WordBoundary>>)),
     mobile |->
        CaseSensitive(Cat(<<WordBoundary,
                            Group(1, Cat(<<In({"7", "8", "9"}), Times(Digit, 9)>>)),
                            WordBoundary>>)),
     email |->
        CaseSensitive(Cat(<<Plus(In(WordChars \cup {".", "%", "+", "-"})), Lit("@"),
                            Plus(In(WordChars \cup {".", "-"})), Lit("."),
                            Rep(In(CharsOf(LowerCase) \cup CharsOf(UpperCase)), 2, -1, FALSE)>>))]

\* (\d{1,2}[/-]\d{1,2}[/-]\d{4}) of the enquiry loop
enquiry_line_date ==
    CaseSensitive(Group(1, Cat(<<Rep(Digit, 1, 2, FALSE), In({"/", "-"}),
                                 Rep(Digit, 1, 2, FALSE), In({"/", "-"}), Times(Digit, 4)>>)))

\* [\d,]+ of the enquiry loop
enquiry_amount == CaseSensitive(DigitsAndCommas)

\* \b(\d{2}-\d{2}-\d{4})\b of extract_enquiries_from_pdf
enquiry_dates_pattern == CaseSensitive(Cat(<<WordBoundary, Group(1, DashedDate), WordBoundary>>))

\* the patterns of _extract_overdue_summary_from_html_text, each under re.I
html_overdue_count ==
    IgnoreCase(Cat(<<WordBoundary, Lit("Overdue"), Star(Space), Lit(":"), Star(Space),
                     Group(1, Plus(Digit)), WordBoundary>>))

html_current ==
    IgnoreCase(Cat(<<WordBoundary, Lit("Current"), Star(Space), Lit(":"), Star(Space),
                     Opt(In({"₹"})), Star(Space), Group(1, DigitsAndCommas), WordBoundary>>))

html_overdue_amount ==
    IgnoreCase(Cat(<<WordBoundary, Lit("Overdue"), Star(Space), Lit(":"), Star(Space),
                     Lit("₹"), Star(Space), Group(1, DigitsAndCommas), WordBoundary>>))

html_overdue_fallback ==
    IgnoreCase(Cat(<<Lit("Overdue"), Star(Space), ColonsAndSpaces, Opt(In({"₹"})), Star(Space),
                     Group(1, DigitsAndCommas)>>))

\* CONSUMER\s+ACCOUNT\s+SUMMARY(.*?)(?:CONSUMER\s+ACCOUNT\s+DETAILS|
\* CONSUMER\s+ENQUIRY\s+DETAILS|CONSUMER\s+DETAILS|$) under re.I | re.S
summary_section ==
    IgnoreCase(Cat(<<Lit("CONSUMER"), Plus(Space), Lit("ACCOUNT"), Plus(Space), Lit("SUMMARY"),
                     Group(1, LazyStar(AnyChar)),
                     Alt(<<Cat(<<Lit("CONSUMER"), Plus(Space), Lit("ACCOUNT"), Plus(Space),
                                 Lit("DETAILS")>>),
                           Cat(<<Lit("CONSUMER"), Plus(Space), Lit("ENQUIRY"), Plus(Space),
                                 Lit("DETAILS")>>),
                           Cat(<<Lit("CONSUMER"), Plus(Space), Lit("DETAILS")>>),
                           EndOfText>>)>>))

(***************************************************************************)
(* Numbers and texts.                                                      *)
(***************************************************************************)
\* str.isdigit
IsDigit(text) == text # "" /\ \A p \in 1..Len(text) : At(text, p) \in Digits

\* the digit a character spells
DigitValue == [c \in Digits |-> CHOOSE v \in 0..9 : At("0123456789", v + 1) = c]

RECURSIVE NumberOf(_, _, _)
\* the number the digits a..b of a text spell
NumberOf(text, a, b) ==
    IF a > b THEN 0
    ELSE IF a = b THEN DigitValue[At(text, a)]
    ELSE NumberOf(text, a, (a + b) \div 2) * 10 ^ (b - (a + b) \div 2)
            + NumberOf(text, (a + b) \div 2 + 1, b)

\* the text without the characters of chars
Without(text, chars) == MapChars(text, [c \in chars |-> ""], 1, Len(text))

\* int(text) for a text of str: None (<<>>) where int raises ValueError
int(text) ==
    LET stripped == Strip(text)
        signed == At(stripped, 1) \in {"+", "-"}
        body == IF signed THEN Slice(stripped, 2, Len(stripped) + 1) ELSE stripped
        digits == Without(body, {"_"})
        wellFormed ==
            /\ body # ""
            /\ \A p \in 1..Len(body) : At(body, p) \in Digits \cup {"_"}
            /\ At(body, 1) # "_" /\ At(body, Len(body)) # "_"
            /\ \A p \in 1..(Len(body) - 1) : ~(At(body, p) = "_" /\ At(body, p + 1) = "_")
    IN  IF ~wellFormed THEN None
        ELSE Some((IF At(stripped, 1) = "-" THEN -1 ELSE 1) * NumberOf(digits, 1, Len(digits)))

RECURSIVE str(_)
\* str(n) of a number n >= 0
str(n) == IF n < 10 THEN At("0123456789", n + 1) ELSE str(n \div 10) \o At("0123456789", (n % 10) + 1)

\* '%02d' % n
TwoDigits(n) == IF n < 10 THEN "0" \o str(n) ELSE str(n)

\* the characters str compares by, in the order of their code points
CodePoints ==
    "\t\n\f\r !#$%&'()*+,-./0123456789:;<=>?@ABCDEFGHIJKLMNOPQRSTUVWXYZ[]^_abcdefghijklmnopqrstuvwxyz{|}~®₹"

Ord(c) == CHOOSE i \in 1..Len(CodePoints) : At(CodePoints, i) = c

\* a < b for two texts of str
LessText(a, b) ==
    LET differ == {p \in 1..Min({Len(a), Len(b)}) : At(a, p) # At(b, p)}
    IN  IF differ = {} THEN Len(a) < Len(b)
        ELSE Ord(At(a, Min(differ))) < Ord(At(b, Min(differ)))

\* max(texts) for a set of texts
MaxText(texts) == CHOOSE t \in texts : \A u \in texts : u = t \/ LessText(u, t)

RECURSIVE Squeezed(_, _, _)
\* re.sub(r'\s+', ' ', text) on the characters a..b of text
Squeezed(text, a, b) ==
    IF a > b THEN ""
    ELSE IF a = b
         THEN IF At(text, a) \notin Spaces THEN At(text, a)
              ELSE IF At(text, a - 1) \in Spaces THEN "" ELSE " "
    ELSE Squeezed(text, a, (a + b) \div 2) \o Squeezed(text, (a + b) \div 2 + 1, b)

\* the places where the literal label stands in a lower-cased text
Occurrences(label, lowered) ==
    {p \in 1..(Len(lowered) - Len(label) + 1) : SubSeq(lowered, p, p + Len(label) - 1) = label}

(***************************************************************************)
(* Dates. datetime.strptime compiles a format into a pattern, matches it   *)
(* at the start of the text under re.I and raises ValueError when the      *)
(* pattern does not match, when text is left over or when the calendar has *)
(* no such date.                                                           *)
(***************************************************************************)
NonZeroDigit == In(Digits \ {"0"})

\* the patterns of the directives (_strptime.TimeRE), the groups numbered
\* d 1, m 2, Y 3, H 4, M 5, S 6
Directive ==
    [d |-> Group(1, Alt(<<Cat(<<Lit("3"), In({"0", "1"})>>), Cat(<<In({"1", "2"}), Digit>>),
                          Cat(<<Lit("0"), NonZeroDigit>>), NonZeroDigit,
                          Cat(<<Lit(" "), NonZeroDigit>>)>>)),
     m |-> Group(2, Alt(<<Cat(<<Lit("1"), In({"0", "1", "2"})>>),
                          Cat(<<Lit("0"), NonZeroDigit>>), NonZeroDigit>>)),
     Y |-> Group(3, Times(Digit, 4)),
     H |-> Group(4, Alt(<<Cat(<<Lit("2"), In({"0", "1", "2", "3"})>>),
                          Cat(<<In({"0", "1"}), Digit>>), Digit>>)),
     M |-> Group(5, Alt(<<Cat(<<In({"0", "1", "2", "3", "4", "5"}), Digit>>), Digit>>)),
     S |-> Group(6, Alt(<<Cat(<<Lit("6"), In({"0", "1"})>>),
                          Cat(<<In({"0", "1", "2", "3", "4", "5"}), Digit>>), Digit>>))]

\* the formats of the source, compiled: a blank of a format is \s+
Formats ==
    [dmY_dash |-> IgnoreCase(Cat(<<Directive.d, Lit("-"), Directive.m, Lit("-"), Directive.Y>>)),
     dmY_slash |-> IgnoreCase(Cat(<<Directive.d, Lit("/"), Directive.m, Lit("/"), Directive.Y>>)),
     dmY_slash_HM |->
        IgnoreCase(Cat(<<Directive.d, Lit("/"), Directive.m, Lit("/"), Directive.Y, Lit(","),
                         Plus(Space), Directive.H, Lit(":"), Directive.M>>)),
     dmY_dash_HMS |->
        IgnoreCase(Cat(<<Directive.d, Lit("-"), Directive.m, Lit("-"), Directive.Y, Plus(Space),
                         Directive.H, Lit(":"), Directive.M, Lit(":"), Directive.S>>)),
     Ymd_dash |-> IgnoreCase(Cat(<<Directive.Y, Lit("-"), Directive.m, Lit("-"), Directive.d>>)),
     Ymd_slash |-> IgnoreCase(Cat(<<Directive.Y, Lit("/"), Directive.m, Lit("/"), Directive.d>>)),
     dmY_dot |-> IgnoreCase(Cat(<<Directive.d, Lit("."), Directive.m, Lit("."), Directive.Y>>))]

IsLeap(y) == y % 4 = 0 /\ (y % 100 # 0 \/ y % 400 = 0)

DaysInMonth(y, m) ==
    IF m = 2 THEN (IF IsLeap(y) THEN 29 ELSE 28)
    ELSE IF m \in {4, 6, 9, 11} THEN 30 ELSE 31

\* datetime(y, m, d) does not raise ValueError
ValidDate(y, m, d) == y \in 1..9999 /\ m \in 1..12 /\ d \in 1..DaysInMonth(y, m)

\* the number a group of a match spells, 0 for a group that took no part
GroupNumber(m, text, n) ==
    IF m.g[n][1] = 0 THEN 0 ELSE NumberOf(Strip(Slice(text, m.g[n][1], m.g[n][2])), 1,
                                          Len(Strip(Slice(text, m.g[n][1], m.g[n][2]))))

\* the date of a match of a compiled format that spans the text
DateOfMatch(m, text) ==
    IF m = <<>> THEN None
    ELSE IF m[1].end # Len(text) + 1 THEN None
    ELSE IF ~ValidDate(GroupNumber(m[1], text, 3), GroupNumber(m[1], text, 2),
                       GroupNumber(m[1], text, 1)) THEN None
    ELSE IF GroupNumber(m[1], text, 6) > 59 THEN None
    ELSE Some(<<GroupNumber(m[1], text, 3), GroupNumber(m[1], text, 2),
                GroupNumber(m[1], text, 1)>>)

\* datetime.strptime(text, format).date() as <<year, month, day>>, None
\* (<<>>) where strptime raises ValueError
strptime(text, format) == DateOfMatch(MatchAt(format, text, 1), text)

\* dt.strftime("%Y-%m-%d") and dt.strftime("%d-%m-%Y")
strftime_Ymd(dt) == str(dt[1]) \o "-" \o TwoDigits(dt[2]) \o "-" \o TwoDigits(dt[3])

RECURSIVE Padded(_, _)
Padded(text, n) == IF Len(text) >= n THEN text ELSE Padded("0" \o text, n)

strftime_dmY(dt) == TwoDigits(dt[3]) \o "-" \o TwoDigits(dt[2]) \o "-" \o str(dt[1])

RECURSIVE FirstParsed(_, _, _)
\* the date of the first of the formats, from the k-th on, that parses text
FirstParsed(text, formats, k) ==
    IF k > Len(formats) THEN None
    ELSE IF strptime(text, formats[k]) # None THEN strptime(text, formats[k])
    ELSE FirstParsed(text, formats, k + 1)

\* the date_formats of CIBILExtractor._parse_date
date_formats == <<Formats.dmY_dash, Formats.dmY_slash, Formats.dmY_slash_HM, Formats.dmY_dash_HMS>>

\* CIBILExtractor._parse_date(raw) for raw of str
_parse_date(raw) ==
    IF Strip(raw) = "" THEN None
    ELSE IF FirstParsed(Strip(raw), date_formats, 1) = None THEN None
    ELSE Some(strftime_Ymd(FirstParsed(Strip(raw), date_formats, 1)[1]))

(***************************************************************************)
(* Floats. A float the code stores is the double nearest to a number of    *)
(* tenths, and the model keeps the tenths. A float in the middle of a      *)
(* computation (a running total) is the record of the tenths it stands     *)
(* for and of err, the signed distance of the double from tenths / 10 in   *)
(* units of 2^-56 / 10; a double of the model's range is a whole number of *)
(* units away. Addition and division round to the nearest double, a tie    *)
(* going to the even significand, and round(x, 1) rounds the exact value   *)
(* of x to the nearest tenth, an exact tie going to the even tenth.        *)
(***************************************************************************)
Pow2(j) == 2 ^ j

\* 2^j mod 5
Pow2Mod5(j) == <<1, 2, 4, 3>>[(j % 4) + 1]

RECURSIVE ExponentFrom(_, _)
ExponentFrom(m, e) ==
    IF 20 * Pow2(e + 6) <= 32 * m THEN ExponentFrom(m, e + 1) ELSE e

\* the binary exponent of m / 20: the e with 2^e <= m / 20 < 2^(e + 1)
Exponent(m) == ExponentFrom(m, -5)

\* m / 20 is a power of two
IsPow2(m) == 20 * Pow2(Exponent(m) + 5) = 32 * m

\* the nearest integer to num / den; a tie goes to the j that makes
\* parity + j even
NearestTo(num, den, parity) ==
    LET j == IF num >= 0 THEN num \div den ELSE -((-num + den - 1) \div den)
        rem == num - j * den
    IN  IF 2 * rem < den THEN j
        ELSE IF 2 * rem > den THEN j + 1
        ELSE IF (parity + j) % 2 = 0 THEN j ELSE j + 1

\* the int total as a float
IntFloat(total) == [tenths |-> 10 * total, err |-> 0]

\* the float a stored number of tenths is: the double nearest to tenths / 10
Double(tenths) ==
    IF tenths = 0 THEN [tenths |-> 0, err |-> 0]
    ELSE LET e == Exponent(2 * tenths)
             r == ((tenths % 5) * Pow2Mod5(51 - e)) % 5
         IN  [tenths |-> tenths, err |-> <<0, -1, -2, 2, 1>>[r + 1] * Pow2(e + 5)]

\* x + y of two floats that are not negative
FloatAdd(x, y) ==
    IF x.tenths = 0 THEN y
    ELSE IF y.tenths = 0 THEN x
    ELSE LET tenths == x.tenths + y.tenths
             err == x.err + y.err
             e == IF IsPow2(2 * tenths) /\ err < 0 THEN Exponent(2 * tenths) - 1
                  ELSE Exponent(2 * tenths)
             r == ((tenths % 5) * Pow2Mod5(51 - e)) % 5
             rho == r * Pow2(e + 5) + err
             j == NearestTo(rho, 5 * Pow2(e + 5), r % 2)
         IN  [tenths |-> tenths, err |-> err + j * 5 * Pow2(e + 5) - rho]

RECURSIVE FloatSumFrom(_, _)
FloatSumFrom(total, values) ==
    IF values = <<>> THEN total
    ELSE FloatSumFrom(FloatAdd(total, Double(Head(values))), Tail(values))

\* sum(values), and total = 0 followed by total += avg, of stored floats:
\* the additions are made in list order, each one rounded
FloatSum(values) == FloatSumFrom(IntFloat(0), values)

\* round(total / count, 1) for a float total, in tenths
RoundFloat(total, count) ==
    LET q == total.tenths \div count
        rem == total.tenths % count
        m == 2 * q + 1
        e == IF IsPow2(m) /\ total.err < 0 THEN Exponent(m) - 1 ELSE Exponent(m)
        r == ((m % 5) * Pow2Mod5(50 - e)) % 5
        j == NearestTo(r * count * Pow2(e + 5) + total.err,
                       5 * count * Pow2(e + 5), r % 2)
    IN  IF 2 * rem < count THEN q
        ELSE IF 2 * rem > count THEN q + 1
        ELSE IF 5 * j > r THEN q + 1
        ELSE IF 5 * j < r THEN q
        ELSE IF q % 2 = 0 THEN q ELSE q + 1

\* round(total / count, 1) for an int total, in tenths
Round1(total, count) == RoundFloat(IntFloat(total), count)

(***************************************************************************)
(* Tokens.                                                                 *)
(***************************************************************************)
\* the token texts the model draws documents from: two clean sentinels (one
\* in lower case: DPD_TOKEN_RE is case-insensitive), the dash, two dirty codes
Vocabulary == {"000", "std", "-", "015", "032"}

CLEAN_STATES == {"000", "XXX", "-", "STD"}

\* CIBILExtractor._dpd_to_number: int(status) raises ValueError for a text
\* that spells no number
_dpd_to_number(status) ==
    IF Strip(Upper(status)) \in {"STD", "000", "XXX", "-"} THEN 0
    ELSE IF int(Strip(Upper(status))) = None THEN 0
    ELSE int(Strip(Upper(status)))[1]

\* DPD_TOKEN_RE.findall on a stored DPD string, that is on tokens joined by
\* single spaces. The alternative "-" sits between two \b: it matches only
\* with a word character on both sides, so a dash that stands alone between
\* spaces (or at an end of the string) is not found again; every other token
\* is three word characters between spaces and is found as it stands.
DPD_TOKEN_RE_findall(dpd_string) == SelectSeq(dpd_string, LAMBDA t : t # "-")

\* [t.upper() for t in DPD_TOKEN_RE.findall(dpd_string)]
DpdValues(dpd_string) ==
    LET found == DPD_TOKEN_RE_findall(dpd_string)
    IN  [i \in 1..Len(found) |-> Upper(found[i])]

(***************************************************************************)
(* Deterioration reasoning (_get_deterioration_reasoning).                 *)
(* The returned f-string is the record of its parts: kind is the text      *)
(* before the colon ("" for the empty string), n the token count of        *)
(* COMPLETELY_DIRTY, prev and curr the two quoted tokens of a transition   *)
(* (prev alone the code of EXPLICIT_DIRTY), year the label after "in".     *)
(***************************************************************************)
NoReasoning == [kind |-> "", n |-> 0, prev |-> "", curr |-> "", year |-> 0]

CompletelyDirty(n, year) ==
    [kind |-> "COMPLETELY_DIRTY", n |-> n, prev |-> "", curr |-> "", year |-> year]

Transition(prev, curr, year) ==
    [kind |-> IF curr \notin CLEAN_STATES THEN "CLEAN_TO_DIRTY" ELSE "DIRTY_TO_CLEAN",
     n |-> 0, prev |-> prev, curr |-> curr, year |-> year]

ExplicitDirty(dirty, year) ==
    [kind |-> "EXPLICIT_DIRTY", n |-> 0, prev |-> dirty, curr |-> "", year |-> year]

\* the list of RULE 3, in the order the code tries it
dirty_examples == <<"015", "032", "046">>

\* RULE 1: not has_clean and len(dpd_values) > 0
Rule1Fires(dpd_values) ==
    /\ Len(dpd_values) > 0
    /\ ~ \E i \in 1..Len(dpd_values) : dpd_values[i] \in CLEAN_STATES

\* RULE 2: the positions i whose pair (i, i+1) changes between clean and dirty
Rule2Pairs(dpd_values) ==
    {i \in 1..(Len(dpd_values) - 1) :
        (dpd_values[i] \in CLEAN_STATES) # (dpd_values[i + 1] \in CLEAN_STATES)}

\* RULE 3: the positions of dirty_examples whose code is among the tokens
Rule3Hits(dpd_values) ==
    {k \in 1..Len(dirty_examples) :
        \E i \in 1..Len(dpd_values) : dpd_values[i] = dirty_examples[k]}

\* a variant that tries RULE 3 before the other two
MutantYearReasoning(dpd_values, year) ==
    IF Rule3Hits(dpd_values) # {} THEN
        ExplicitDirty(dirty_examples[Min(Rule3Hits(dpd_values))], year)
    ELSE IF Rule1Fires(dpd_values) THEN CompletelyDirty(Len(dpd_values), year)
    ELSE IF Rule2Pairs(dpd_values) # {} THEN
        LET i == Min(Rule2Pairs(dpd_values))
        IN  Transition(dpd_values[i], dpd_values[i + 1], year)
    ELSE NoReasoning

\* the body of the loop for one year: the three rules in the code's order
YearReasoning(dpd_values, year) ==
    IF Rule1Fires(dpd_values) THEN CompletelyDirty(Len(dpd_values), year)
    ELSE IF Rule2Pairs(dpd_values) # {} THEN
        LET i == Min(Rule2Pairs(dpd_values))
        IN  Transition(dpd_values[i], dpd_values[i + 1], year)
    ELSE IF Rule3Hits(dpd_values) # {} THEN
        ExplicitDirty(dirty_examples[Min(Rule3Hits(dpd_values))], year)
    ELSE NoReasoning

RECURSIVE ReasoningOver(_, _)
\* the for loop over the sorted years: the first year that returns
ReasoningOver(years, history) ==
    IF years = <<>> THEN NoReasoning
    ELSE LET year == Head(years)
             dpd_string == Item(history, year)
             dpd_values == DpdValues(dpd_string)
         IN  IF dpd_string = <<>> \/ dpd_values = <<>>
             THEN ReasoningOver(Tail(years), history)
             ELSE IF YearReasoning(dpd_values, year) # NoReasoning
                  THEN YearReasoning(dpd_values, year)
                  ELSE ReasoningOver(Tail(years), history)

_get_deterioration_reasoning(history) ==
    ReasoningOver(SetToSortedSeq(KeySet(history)), history)

(***************************************************************************)
(* Default month (_default_month_for_year and its callers).                *)
(***************************************************************************)
_default_month_for_year(dpd_string) ==
    LET tokens == DpdValues(dpd_string)
        dirty == {idx \in 1..Len(tokens) : tokens[idx] \notin CLEAN_STATES}
    IN  IF dirty = {} THEN None ELSE Some(Min(dirty))

_default_month_for_specific_year(history, year) ==
    IF year \notin KeySet(history) THEN None
    ELSE IF Item(history, year) = <<>> THEN None
    ELSE _default_month_for_year(Item(history, year))

\* yearly_defaults: the default months of the years that have one, in the
\* order dpd_history.values() yields the stored strings
YearlyDefaults(history) ==
    LET months == [i \in 1..Len(history) |-> _default_month_for_year(history[i][2])]
        kept == SelectSeq(months, LAMBDA month : month # None)
    IN  [i \in 1..Len(kept) |-> kept[i][1]]

\* a variant that leaves out the tokens stored under the label UNKNOWN
Mutant_calculate_default_month_number(history) ==
    LET yearly_defaults == YearlyDefaults(SelectSeq(history, LAMBDA item : item[1] # 10000))
    IN  IF yearly_defaults = <<>> THEN None
        ELSE Some(Round1(SumSeq(yearly_defaults), Len(yearly_defaults)))

_calculate_default_month_number(history) ==
    LET yearly_defaults == YearlyDefaults(history)
    IN  IF yearly_defaults = <<>> THEN None
        ELSE Some(Round1(SumSeq(yearly_defaults), Len(yearly_defaults)))

(***************************************************************************)
(* Yearly DPD averages (the loop both _convert_*_accounts_to_unified run). *)
(***************************************************************************)
\* a variant that counts a clean token as a zero instead of leaving it out
MutantNumericDpd(dpd_string) ==
    LET tokens == DPD_TOKEN_RE_findall(dpd_string)
    IN  [i \in 1..Len(tokens) |-> _dpd_to_number(tokens[i])]

\* numeric_dpd: the numbers of the tokens that are not clean
NumericDpd(dpd_string) ==
    LET tokens == DPD_TOKEN_RE_findall(dpd_string)
        kept == SelectSeq(tokens, LAMBDA t : Upper(t) \notin {"000", "XXX", "-", "STD"})
    IN  [i \in 1..Len(kept) |-> _dpd_to_number(kept[i])]

\* yearly_averages: one entry {"year", "average_dpd"} (tenths) per year
\* whose numeric_dpd is not empty, in the order dpd_history.items() yields
\* the years
YearlyAverages(history) ==
    LET kept == SelectSeq(history, LAMBDA item : NumericDpd(item[2]) # <<>>)
    IN  [i \in 1..Len(kept) |->
            [year |-> kept[i][1],
             average_dpd |-> Round1(SumSeq(NumericDpd(kept[i][2])),
                                    Len(NumericDpd(kept[i][2])))]]

(***************************************************************************)
(* The account-level specification: one DPD history, as either segmenter   *)
(* can store it, and the functions the converters apply to it.             *)
(***************************************************************************)
\* the label of _extract_dpd_history_pdf for tokens without a month stamp
UNKNOWN == 10000

\* the calendar year datetime.now() reports when the model starts, and the
\* four-digit labels histories are drawn from: it, the year before, one older
CurrentYear == 2026

\* the most years that pass between the start and the last invocation
MaxYearsLater == 2

\* the years the datetime.now() calls of one extraction report, in call
\* order, when the first one reports year: the two reads of
\* _calculate_dynamic_final_default_month and the read of the
\* extraction_timestamp; the calendar moves on at most once in between
Clocks(year) ==
    {clock \in {<<year, year, year>>, <<year, year, year + 1>>, <<year, year + 1, year + 1>>} :
        clock[3] <= CurrentYear + MaxYearsLater}

\* the day datetime.now() reports when the model starts
StartDate == <<CurrentYear, 10, 29>>

\* the day datetime.now() reports once the calendar has moved on to year:
\* the first day of a later year
DateIn(date, year) == IF year = date[1] THEN date ELSE <<year, 1, 1>>

YearLabels == {CurrentYear - 2, CurrentYear - 1, CurrentYear}

\* the stored DPD strings of exactly n tokens
StringsOfLen(n) == [1..n -> Vocabulary]

\* the orders dict.items() can yield the years of a history in: four-digit
\* years in any combination and order, or the label UNKNOWN alone
KeyOrders == UNION {Orders(D) : D \in SUBSET YearLabels} \cup {<<UNKNOWN>>}

\* how many tokens the strings of a history with these keys store: at
\* least one each (both segmenters store a year only with the tokens they
\* found for it) and at most MaxTokens together
LengthsFor(order) ==
    {lens \in [1..Cardinality(YearLabels) -> 0..MaxTokens] :
        /\ \A i \in DOMAIN lens : (lens[i] > 0) <=> (i <= Len(order))
        /\ SumSeq(lens) <= MaxTokens}

\* the history that holds the keys in this order, each with its string
HistoryOf(order, strings) == [i \in 1..Len(order) |-> <<order[i], strings[i]>>]

\* the result dict before process_single_file sets a field
NoResult ==
    [status |-> None, error_message |-> None, reason |-> None, name |-> None,
     pan |-> None, original_file |-> None, s3_url |-> None]

\* the orchestrator has processed nothing: an empty table, no processed
\* object, no result and no call
ProcIdle ==
    /\ table_cibil = <<>>
    /\ processed_data = <<>>
    /\ result = NoResult
    /\ calls = <<>>

\* no scanning loop, no call of dump_files and no concurrent call is running
RestIdle ==
    /\ scan = <<>>
    /\ dump = <<>>
    /\ workers = <<>>

NoDerived ==
    [reasoning |-> NoReasoning, yearly_defaults |-> <<>>,
     default_month_number |-> None, yearly_averages |-> <<>>]

NoFile == [exists |-> FALSE, ext |-> "", kind |-> "", content |-> <<>>]

\* no report (yet): None
NoReport == None

InitDpd ==
    /\ pc = "history"
    /\ now = StartDate
    /\ ProcIdle
    /\ RestIdle
    /\ \E order \in KeyOrders : \E lens \in LengthsFor(order) :
       \E first \in StringsOfLen(lens[1]) : \E second \in StringsOfLen(lens[2]) :
       \E third \in StringsOfLen(lens[3]) :
          dpd_history = HistoryOf(order, <<first, second, third>>)
    /\ derived = NoDerived
    /\ file = NoFile
    /\ invoked = <<>>
    /\ outcome = ""
    /\ report = NoReport
    /\ accounts = <<>>
    /\ final_default = None
    /\ all_enquiries = <<>>
    /\ latest = <<>>

\* account['deterioration_reasoning'] = _get_deterioration_reasoning(dpd_history)
Reason ==
    /\ pc = "history"
    /\ derived' = [derived EXCEPT !.reasoning = _get_deterioration_reasoning(dpd_history)]
    /\ pc' = "reasoned"
    /\ UNCHANGED <<restVars, procVars, now, file, invoked, outcome, report, dpd_history, accounts,
                   final_default, all_enquiries, latest>>

\* _calculate_default_month_number(dpd_history), with the default month of
\* each year it averages
DefaultMonth ==
    /\ pc = "reasoned"
    /\ derived' = [derived EXCEPT
            !.yearly_defaults =
                [y \in KeySet(dpd_history) |->
                    _default_month_for_year(Item(dpd_history, y))],
            !.default_month_number = _calculate_default_month_number(dpd_history)]
    /\ pc' = "defaulted"
    /\ UNCHANGED <<restVars, procVars, now, file, invoked, outcome, report, dpd_history, accounts,
                   final_default, all_enquiries, latest>>

\* the yearly_averages loop of the converters
Average ==
    /\ pc = "defaulted"
    /\ derived' = [derived EXCEPT !.yearly_averages = YearlyAverages(dpd_history)]
    /\ pc' = "averaged"
    /\ UNCHANGED <<restVars, procVars, now, file, invoked, outcome, report, dpd_history, accounts,
                   final_default, all_enquiries, latest>>

NextDpd == Reason \/ DefaultMonth \/ Average

SpecDpd == InitDpd /\ [][NextDpd]_vars

(***************************************************************************)
(* Dictionaries and text.                                                  *)
(* A dict is a function from its keys; an optional text is None or         *)
(* <<text>>.                                                               *)
(***************************************************************************)
\* dict.get(key, default)
Get(dict, key, default) == IF key \in DOMAIN dict THEN dict[key] ELSE default

\* value or default: None and the empty string are false
OrElse(value, default) == IF value = <<>> THEN default ELSE value

\* a variant that keeps the cleaned text whatever it is made of
Mutant_clean_amount(raw) ==
    IF raw = "" THEN "0" ELSE Without(Strip(raw), {"₹", ","} \cup Spaces)

\* CIBILExtractor._clean_amount(raw) for a text raw: re.sub(r'[₹,\s]', '',
\* raw.strip()), kept only when it is made of digits
_clean_amount(raw) ==
    IF raw = "" THEN "0"
    ELSE IF IsDigit(Without(Strip(raw), {"₹", ","} \cup Spaces))
    THEN Without(Strip(raw), {"₹", ","} \cup Spaces)
    ELSE "0"

(***************************************************************************)
(* The unified account records and the document-level aggregates.          *)
(***************************************************************************)
\* HTMLExtractor._calculate_account_dpd_average: the mean of the yearly
\* averages, added up in list order, None without any (every entry the
\* converter appends holds an average_dpd)
HtmlAccountDpdAverage(yearly_averages) ==
    LET values == [i \in 1..Len(yearly_averages) |-> yearly_averages[i].average_dpd]
    IN  IF values = <<>> THEN None
        ELSE Some(RoundFloat(FloatSum(values), Len(values)))

\* PDFExtractor._calculate_account_dpd_average
PdfAccountDpdAverage(yearly_averages) ==
    LET values == [i \in 1..Len(yearly_averages) |-> yearly_averages[i].average_dpd]
    IN  IF values = <<>> THEN None
        ELSE Some(RoundFloat(FloatSum(values), Len(values)))

\* one unified_account of HTMLExtractor._convert_html_accounts_to_unified
HtmlUnifiedAccount(account, idx) ==
    LET history == Get(account, "dpd_history", <<>>)
        yearly_averages == YearlyAverages(history)
    IN  [account_index |-> idx,
         original_html_index |-> OrElse(Get(account, "original_html_index", None), Some("N/A")),
         deterioration_reasoning |->
             OrElse(Get(account, "deterioration_reasoning", None), NoReasoning),
         date_opened |-> OrElse(Get(account, "date_opened", None), Some("N/A")),
         date_closed |-> OrElse(Get(account, "date_closed", None), Some("N/A")),
         date_reported |-> OrElse(Get(account, "date_reported", None), Some("N/A")),
         status |-> OrElse(Get(account, "status", None), Some("N/A")),
         account_type |-> OrElse(Get(account, "account_type", None), Some("N/A")),
         member_name |-> OrElse(Get(account, "member_name", None), Some("N/A")),
         sanctioned_amount |-> Get(account, "sanctioned_amount", Some("0")),
         current_balance |-> Get(account, "current_balance", Some("0")),
         default_month_number |->
             OrElse(_calculate_default_month_number(history), Some(0)),
         dpd_history |-> history,
         dpd_summary |->
             [yearly_averages |-> yearly_averages,
              monthly_entries |-> <<>>,
              account_dpd_average |->
                  OrElse(HtmlAccountDpdAverage(yearly_averages), Some(0))]]

_convert_html_accounts_to_unified(raw) ==
    [idx \in 1..Len(raw) |-> HtmlUnifiedAccount(raw[idx], idx)]

\* a variant that copies the metadata keys the account dict holds and no
\* other
MutantPdfUnifiedAccount(account) ==
    LET history == Get(account, "dpd_history", <<>>)
        yearly_averages == YearlyAverages(history)
    IN  [k \in DOMAIN account \ {"dpd_history"} |-> account[k]]
        @@ [default_month_number |-> _calculate_default_month_number(history),
            dpd_history |-> history,
            dpd_summary |->
                [yearly_averages |-> yearly_averages,
                 monthly_entries |-> <<>>,
                 account_dpd_average |-> PdfAccountDpdAverage(yearly_averages)]]

\* one unified_account of PDFExtractor._convert_pdf_accounts_to_unified
PdfUnifiedAccount(account) ==
    LET history == Get(account, "dpd_history", <<>>)
        yearly_averages == YearlyAverages(history)
    IN  [account_index |-> Get(account, "account_index", None),
         deterioration_reasoning |-> Get(account, "deterioration_reasoning", None),
         date_opened |-> Get(account, "date_opened", None),
         date_closed |-> Get(account, "date_closed", None),
         date_reported |-> Get(account, "date_reported", None),
         account_type |-> Get(account, "account_type", None),
         member_name |-> Get(account, "member_name", None),
         sanctioned_amount |-> Get(account, "sanctioned_amount", Some("0")),
         current_balance |-> Get(account, "current_balance", Some("0")),
         overdue_amount |-> Get(account, "overdue_amount", Some("0")),
         default_month_number |-> _calculate_default_month_number(history),
         dpd_history |-> history,
         dpd_summary |->
             [yearly_averages |-> yearly_averages,
              monthly_entries |-> <<>>,
              account_dpd_average |-> PdfAccountDpdAverage(yearly_averages)]]

_convert_pdf_accounts_to_unified(raw) ==
    [idx \in 1..Len(raw) |-> PdfUnifiedAccount(raw[idx])]

RECURSIVE Present(_)
\* the values that are not None of a list of optional values, in list order
Present(options) ==
    IF options = <<>> THEN <<>> ELSE Head(options) \o Present(Tail(options))

\* cur (year = current_year) or prev (year = previous_year) of every account
SpecificYearDefaults(accts, year) ==
    [i \in 1..Len(accts) |-> _default_month_for_specific_year(accts[i].dpd_history, year)]

\* first_now and second_now are the years the two datetime.now() calls of
\* the function report, in call order
_calculate_dynamic_final_default_month(accts, first_now, second_now) ==
    LET current_year == first_now
        previous_year == second_now - 1
        current_year_values ==
            Present(SpecificYearDefaults(accts, current_year))
        fallback_values ==
            Present(SpecificYearDefaults(accts, previous_year))
        combined == current_year_values \o fallback_values
    IN  IF Len(current_year_values) >= 5
        THEN Some(Round1(SumSeq(current_year_values), Len(current_year_values)))
        ELSE IF combined # <<>>
        THEN Some(Round1(SumSeq(combined), Len(combined)))
        ELSE None

\* final_default_month_avg of both _build_unified_structure methods
FinalDefaultMonthAvg(accts, first_now, second_now) ==
    LET default_month_numbers == Present([i \in 1..Len(accts) |-> accts[i].default_month_number])
    IN  IF default_month_numbers # <<>>
        THEN _calculate_dynamic_final_default_month(accts, first_now, second_now)
        ELSE None

\* final_dpd_average of both _build_unified_structure methods
FinalDpdAverage(accts) ==
    LET account_dpd_averages ==
            Present([i \in 1..Len(accts) |-> accts[i].dpd_summary.account_dpd_average])
    IN  IF account_dpd_averages # <<>>
        THEN Some(RoundFloat(FloatSum(account_dpd_averages), Len(account_dpd_averages)))
        ELSE None

(***************************************************************************)
(* Claims about the account-level functions (checked under SpecDpd).       *)
(***************************************************************************)
\* the mapping year label -> stored DPD string of the history
History == AsMap(dpd_history)

\* the tokens the functions read from the year's stored string, upper-cased
TokensRead(year) == DpdValues(History[year])

IsClean(t) == t \in {"000", "XXX", "STD", "-"}

AllDirty(toks) == Len(toks) > 0 /\ \A i \in 1..Len(toks) : ~IsClean(toks[i])

ChangesAt(toks, i) == IsClean(toks[i]) # IsClean(toks[i + 1])

HasChange(toks) == \E i \in 1..(Len(toks) - 1) : ChangesAt(toks, i)

NamesKnownDirty(toks) == \E i \in 1..Len(toks) : toks[i] \in {"015", "032", "046"}

\* the years of the history in which one of the three rules fires
FiringYears ==
    {y \in DOMAIN History :
        AllDirty(TokensRead(y)) \/ HasChange(TokensRead(y))
            \/ NamesKnownDirty(TokensRead(y))}

\* the token sequence of the year as the segmenters stored it, upper-cased
StoredTokens(year) == [i \in 1..Len(History[year]) |-> Upper(History[year][i])]

\* the years of the history in which a rule fires on the token sequence
YearsThatFire ==
    {y \in DOMAIN History :
        AllDirty(StoredTokens(y)) \/ HasChange(StoredTokens(y))
            \/ NamesKnownDirty(StoredTokens(y))}

\* C3: _get_deterioration_reasoning reports the first year, in ascending
\* order of the labels, in which a rule fires, and nothing when none fires;
\* for that year a token sequence without a clean token is reported as
\* completely dirty with its token count, and otherwise the first adjacent
\* pair that changes between clean and dirty is reported with its direction
\* and both tokens; [015, 032] is completely dirty and [000, 015] is
\* CLEAN_TO_DIRTY naming '000' and '015'.
C3_ReasoningOrder ==
    pc # "history" =>
        LET r == derived.reasoning
        IN  /\ (r.kind = "") <=> (YearsThatFire = {})
            /\ YearsThatFire # {} =>
                LET y == Min(YearsThatFire)
                    toks == StoredTokens(y)
                IN  /\ r.year = y
                    /\ AllDirty(toks) =>
                          /\ r.kind = "COMPLETELY_DIRTY"
                          /\ r.n = Len(toks)
                    /\ (~AllDirty(toks) /\ HasChange(toks)) =>
                          \E i \in 1..(Len(toks) - 1) :
                              /\ ChangesAt(toks, i)
                              /\ \A j \in 1..(i - 1) : ~ChangesAt(toks, j)
                              /\ r.prev = toks[i]
                              /\ r.curr = toks[i + 1]
                              /\ r.kind = IF IsClean(toks[i]) THEN "CLEAN_TO_DIRTY"
                                          ELSE "DIRTY_TO_CLEAN"
                    /\ History[y] = <<"015", "032">> => r.kind = "COMPLETELY_DIRTY"
                    /\ History[y] = <<"000", "015">> =>
                          /\ r.kind = "CLEAN_TO_DIRTY"
                          /\ r.prev = "000"
                          /\ r.curr = "015"

\* the same for the tokens DPD_TOKEN_RE reads back from the stored strings,
\* which are the stored tokens without the dashes that stand alone
ReasoningOrderOfTokensRead ==
    pc # "history" =>
        LET r == derived.reasoning
        IN  /\ (r.kind = "") <=> (FiringYears = {})
            /\ FiringYears # {} =>
                LET y == Min(FiringYears)
                    toks == TokensRead(y)
                IN  /\ r.year = y
                    /\ AllDirty(toks) =>
                          /\ r.kind = "COMPLETELY_DIRTY"
                          /\ r.n = Len(toks)
                    /\ (~AllDirty(toks) /\ HasChange(toks)) =>
                          \E i \in 1..(Len(toks) - 1) :
                              /\ ChangesAt(toks, i)
                              /\ \A j \in 1..(i - 1) : ~ChangesAt(toks, j)
                              /\ r.prev = toks[i]
                              /\ r.curr = toks[i + 1]
                              /\ r.kind = IF IsClean(toks[i]) THEN "CLEAN_TO_DIRTY"
                                          ELSE "DIRTY_TO_CLEAN"

\* C7: the default month of a year is the 1-based position, in the year's
\* token sequence, of the first token that is not a clean sentinel (000,
\* XXX, STD, -, whatever the case), None when there is no token or every
\* token is clean, and when defined it lies between 1 and the number of
\* tokens of the year.
C7_DefaultMonthForYear ==
    pc \in {"defaulted", "averaged"} =>
        \A y \in DOMAIN History :
            LET toks == StoredTokens(y)
                d == derived.yearly_defaults[y]
            IN  /\ (d = None) <=> (\A i \in 1..Len(toks) : IsClean(toks[i]))
                /\ d # None =>
                      /\ d[1] \in 1..Len(toks)
                      /\ ~IsClean(toks[d[1]])
                      /\ \A j \in 1..(d[1] - 1) : IsClean(toks[j])

\* the same for the tokens DPD_TOKEN_RE reads back from the stored string:
\* the position counts the tokens read, so a dash that stands alone before
\* the first dirty token takes no position
DefaultMonthOfTokensRead ==
    pc \in {"defaulted", "averaged"} =>
        \A y \in DOMAIN History :
            LET toks == TokensRead(y)
                d == derived.yearly_defaults[y]
            IN  /\ (d = None) <=> (\A i \in 1..Len(toks) : IsClean(toks[i]))
                /\ d # None =>
                      /\ d[1] \in 1..Len(toks)
                      /\ d[1] <= Len(History[y])
                      /\ ~IsClean(toks[d[1]])
                      /\ \A j \in 1..(d[1] - 1) : IsClean(toks[j])

\* the positions of a stored string that hold a token that is not clean
NonCleanPositions(dpd_string) ==
    {i \in 1..Len(dpd_string) : ~IsClean(Upper(dpd_string[i]))}

RECURSIVE SumAt(_, _)
\* the sum of the numbers of the tokens at the positions P
SumAt(dpd_string, P) ==
    IF P = {} THEN 0
    ELSE LET i == Min(P)
         IN  NumberOf(dpd_string[i], 1, Len(dpd_string[i])) + SumAt(dpd_string, P \ {i})

\* the yearly average entries of the year y
EntriesOf(y) == SelectSeq(derived.yearly_averages, LAMBDA entry : entry.year = y)

\* C10: a yearly DPD average is the mean (to the one decimal the report
\* keeps) of the numbers of the year's tokens that are not clean; the clean
\* tokens enter neither the numerator nor the denominator, and a year whose
\* tokens are all clean has no yearly average entry.
C10_YearlyAverage ==
    pc = "averaged" =>
        \A y \in DOMAIN History :
            LET P == NonCleanPositions(History[y])
                n == Cardinality(P)
                total == SumAt(History[y], P)
            IN  /\ Len(EntriesOf(y)) = IF P # {} THEN 1 ELSE 0
                /\ P # {} =>
                      LET avg == EntriesOf(y)[1].average_dpd
                          err == 10 * total - avg * n
                      IN  /\ 2 * err <= n
                          /\ -2 * err <= n

\* a year that stores a clean token between 015 and 032 averages 23.5, the
\* mean of the two dirty numbers
C10_Witness ==
    /\ pc = "averaged"
    /\ \E y \in DOMAIN History :
          /\ History[y] = <<"015", "000", "032">>
          /\ EntriesOf(y) = <<[year |-> y, average_dpd |-> 235]>>

(***************************************************************************)
(* The aggregation specification: an account list as either converter      *)
(* hands it to _build_unified_structure, and the document-level final      *)
(* default month computed from it.                                         *)
(***************************************************************************)
\* account as _extract_accounts_from_html creates it for block i (counted
\* from 1: str(i+1) of the code's index), before any field matches
HtmlAccountDefaults(i) ==
    [original_html_index |-> Some(i), date_opened |-> None, date_closed |-> None,
     date_reported |-> None, status |-> None, account_type |-> None,
     member_name |-> None, sanctioned_amount |-> Some("0"),
     current_balance |-> Some("0"), dpd_history |-> <<>>,
     deterioration_reasoning |-> NoReasoning]

\* the account of block i (counted from 1) with no field match and the DPD
\* history h
HtmlAccountOf(history, i) ==
    [HtmlAccountDefaults(i) EXCEPT
        !.dpd_history = history,
        !.deterioration_reasoning = _get_deterioration_reasoning(history)]

\* the account of the idx-th grid header with no metadata match and the DPD
\* history h
PdfAccountOf(history, idx) ==
    [account_index |-> idx, dpd_history |-> history,
     deterioration_reasoning |-> _get_deterioration_reasoning(history)]

\* the histories the account lists are drawn from: a default month in the
\* current year, in both years, in the previous year, in an older year only,
\* and in no year
AccountHistories ==
    {<<<<CurrentYear, <<"015">>>>>>,
     <<<<CurrentYear, <<"000", "032">>>>, <<CurrentYear - 1, <<"015">>>>>>,
     <<<<CurrentYear - 1, <<"000", "000", "015">>>>>>,
     <<<<CurrentYear - 2, <<"015">>>>>>,
     <<<<CurrentYear, <<"000">>>>>>}

HistoryLists == UNION {[1..n -> AccountHistories] : n \in 0..MaxAccounts}

\* the list _convert_html_accounts_to_unified returns for the histories hs:
\* the first block of the split is the text before the first account, too
\* short for an account, and the history hs[i] is that of block i + 1
HtmlAccountList(hs) ==
    _convert_html_accounts_to_unified([i \in 1..Len(hs) |-> HtmlAccountOf(hs[i], i + 1)])

\* the list _convert_pdf_accounts_to_unified returns for the histories hs
PdfAccountList(hs) ==
    _convert_pdf_accounts_to_unified([i \in 1..Len(hs) |-> PdfAccountOf(hs[i], i)])

\* the page-text scan keeps an account only with a reasoning
InitFinal ==
    /\ pc = "accounts"
    /\ now = StartDate
    /\ ProcIdle
    /\ RestIdle
    /\ \E format \in {"HTML", "PDF"} : \E hs \in HistoryLists :
          /\ file = [NoFile EXCEPT !.kind = format]
          /\ format = "PDF" =>
                \A i \in 1..Len(hs) : _get_deterioration_reasoning(hs[i]) # NoReasoning
          /\ accounts = IF format = "HTML" THEN HtmlAccountList(hs)
                        ELSE PdfAccountList(hs)
    /\ final_default = None
    /\ dpd_history = <<>>
    /\ derived = NoDerived
    /\ invoked = <<>>
    /\ outcome = ""
    /\ report = NoReport
    /\ all_enquiries = <<>>
    /\ latest = <<>>

\* the final_default_month_avg line of _build_unified_structure: now is the
\* day the last datetime.now() call reported
BuildFinal ==
    /\ pc = "accounts"
    /\ \E clock \in Clocks(now[1]) :
          /\ clock[2] = clock[3]
          /\ final_default' = FinalDefaultMonthAvg(accounts, clock[1], clock[2])
          /\ now' = DateIn(now, clock[2])
    /\ pc' = "built"
    /\ UNCHANGED <<restVars, procVars, file, invoked, outcome, report, dpd_history, derived, accounts,
                   all_enquiries, latest>>

NextFinal == BuildFinal

SpecFinal == InitFinal /\ [][NextFinal]_vars

(***************************************************************************)
(* Claims about the aggregation (checked under SpecFinal).                 *)
(***************************************************************************)
\* the accounts of the list with a default month in the given year: a year
\* of their history in which a token read is not clean
WithDefaultIn(year) ==
    {i \in 1..Len(accounts) :
        /\ year \in DOMAIN AsMap(accounts[i].dpd_history)
        /\ \E k \in 1..Len(DpdValues(AsMap(accounts[i].dpd_history)[year])) :
              ~IsClean(DpdValues(AsMap(accounts[i].dpd_history)[year])[k])}

\* the default month of account i in the given year
DefaultIn(i, year) ==
    LET toks == DpdValues(AsMap(accounts[i].dpd_history)[year])
    IN  Min({k \in 1..Len(toks) : ~IsClean(toks[k])})

RECURSIVE SumDefaults(_, _)
SumDefaults(I, year) ==
    IF I = {} THEN 0
    ELSE LET i == Min(I) IN DefaultIn(i, year) + SumDefaults(I \ {i}, year)

\* value (tenths) is the mean total / count to one decimal
IsMean(value, total, count) ==
    /\ 2 * (10 * total - value * count) <= count
    /\ 2 * (value * count - 10 * total) <= count

\* C9: with C the default months of the current calendar year (the year of
\* the call) and P those of the calendar year before it,
\* final_default_month_average is the mean of C alone when C has at least 5
\* values, the mean of C and P together when C has fewer, and None when both
\* are empty (means to the one decimal the report keeps).
C9_TwoTierFinalDefaultMonth ==
    pc = "built" =>
        LET C == WithDefaultIn(CurrentYear)
            P == WithDefaultIn(CurrentYear - 1)
            nC == Cardinality(C)
            nP == Cardinality(P)
            sC == SumDefaults(C, CurrentYear)
            sP == SumDefaults(P, CurrentYear - 1)
        IN  /\ nC >= 5 =>
                  /\ final_default # None
                  /\ IsMean(final_default[1], sC, nC)
            /\ (nC < 5 /\ nC + nP > 0) =>
                  /\ final_default # None
                  /\ IsMean(final_default[1], sC + sP, nC + nP)
            /\ (nC + nP = 0) => final_default = None

(***************************************************************************)
(* Enquiries: the latest-month filter of the markup path and the enquiry   *)
(* scan of the page-text path.                                             *)
(* A date text is a string; a parsed date "YYYY-MM-DD" is a string too and  *)
(* the datetime of the page-text path is <<y, m, d>>. The years of the     *)
(* dates the model draws have four significant digits.                     *)
(***************************************************************************)
\* a < b for two tuples of numbers of the same length, field by field
RECURSIVE Before(_, _)
Before(a, b) ==
    /\ a # <<>>
    /\ \/ Head(a) < Head(b)
       \/ Head(a) = Head(b) /\ Before(Tail(a), Tail(b))

\* max() of a non-empty set of tuples
MaxTuple(S) == CHOOSE x \in S : \A y \in S : y = x \/ Before(y, x)

\* group n of the first match of a pattern in a text, None without one
FirstGroup(re, text, n) ==
    IF Search(re, text) = <<>> THEN None ELSE GroupOf(Search(re, text)[1], text, n)

\* _parse_date on group 1 of a match, None without a match
ParsedGroup(group) == IF group = None THEN None ELSE _parse_date(group[1])

\* A line of the text after the enquiries heading is the record of its
\* text and of what the patterns of the two enquiry scans find in it: date
\* the text group 1 of (\d{1,2}[/-]\d{1,2}[/-]\d{4}) spans, parsed what
\* _parse_date returns for that text, digits the first run [\d,]+ (None
\* where a search fails) and dashed what \b(\d{2}-\d{2}-\d{4})\b finds, in
\* text order.
EnquiryLine(text) ==
    [text |-> text,
     date |-> FirstGroup(enquiry_line_date, text, 1),
     parsed |-> ParsedGroup(FirstGroup(enquiry_line_date, text, 1)),
     digits |-> FirstGroup(enquiry_amount, text, 0),
     dashed |-> FindAll(enquiry_dates_pattern, text, 1)]

\* a column title, two texts, two dates the formats parse, a date text
\* with two different separators, a text that is no calendar date, and an
\* amount
EnquiryLines ==
    {EnquiryLine("MEMBER NAME"), EnquiryLine("HDFC BANK"), EnquiryLine("Personal Loan"),
     EnquiryLine("24-12-2025"), EnquiryLine("05/01/2026"), EnquiryLine("05/01-2026"),
     EnquiryLine("31-02-2026"), EnquiryLine("50,000")}

\* any(h in lines[0].upper() for h in ['MEMBER NAme', 'ENQUIRY date'])
HoldsHeadingNeedle(text) ==
    \E h \in {"MEMBER NAme", "ENQUIRY date"} : Occurrences(h, Upper(text)) # {}

\* the enquiry appended for the date line lines[i] (i counts from 0)
HtmlCandidate(lines, i) ==
    LET date_raw == lines[i + 1].date[1]
        filled == {k \in 0..(i - 1) : Strip(lines[k + 1].text) # ""}
        purpose_idx == i + 1
        with_digits == {j \in (i + 2)..(Min({i + 4, Len(lines)}) - 1) :
                           lines[j + 1].digits # None}
    IN  [date |-> date_raw,
         parsed_date |-> lines[i + 1].parsed,
         member |-> IF filled = {} THEN None ELSE Some(Strip(lines[Max(filled) + 1].text)),
         purpose |-> IF purpose_idx < Len(lines) THEN Some(Strip(lines[purpose_idx + 1].text))
                     ELSE None,
         amount |-> IF with_digits = {} THEN Some("0")
                    ELSE Some(_clean_amount(lines[Min(with_digits) + 1].digits[1]))]

RECURSIVE EnquiryLoop(_, _)
\* the while loop of _extract_enquiries_from_html from index i (counted
\* from 0) on: the enquiries it appends to all_enquiries
EnquiryLoop(lines, i) ==
    IF ~(i < Len(lines) - 2) THEN <<>>
    ELSE (IF lines[i + 1].date # None /\ lines[i + 1].parsed # None
          THEN <<HtmlCandidate(lines, i)>> ELSE <<>>)
         \o EnquiryLoop(lines, i + 1)

\* parsed_date[:7]
YearMonth(parsed_date) == Slice(parsed_date, 1, 8)

\* the keys of month_data: the year_month of every enquiry with a parsed
\* date
MonthKeys(enquiries) ==
    {YearMonth(enquiries[i].parsed_date[1]) :
        i \in {k \in 1..Len(enquiries) :
                  enquiries[k].parsed_date # None /\ enquiries[k].parsed_date[1] # ""}}

\* month_data[year_month]: the enquiries of the key, in list order
MonthData(enquiries, year_month) ==
    SelectSeq(enquiries, LAMBDA e :
        /\ e.parsed_date # None
        /\ e.parsed_date[1] # ""
        /\ YearMonth(e.parsed_date[1]) = year_month)

\* the least of a set of texts
MinText(texts) == CHOOSE t \in texts : \A u \in texts : u = t \/ LessText(t, u)

\* a variant that returns the earliest month
Mutant_filter_latest_month_enquiries(enquiries) ==
    IF enquiries = <<>> \/ MonthKeys(enquiries) = {} THEN <<>>
    ELSE MonthData(enquiries, MinText(MonthKeys(enquiries)))

_filter_latest_month_enquiries(enquiries) ==
    IF enquiries = <<>> \/ MonthKeys(enquiries) = {} THEN <<>>
    ELSE MonthData(enquiries, MaxText(MonthKeys(enquiries)))

\* the enquiry the page-text scan emits for a parsed date
PdfEnquiry(d) ==
    [date |-> strftime_dmY(d), parsed_date |-> Some(strftime_Ymd(d)),
     member |-> None, purpose |-> None, amount |-> None]

\* day, month, year = map(int, d.split('-')) for a text \d{2}-\d{2}-\d{4},
\* as <<year, month, day>>
DashedNumbers(d) == <<NumberOf(d, 7, 10), NumberOf(d, 4, 5), NumberOf(d, 1, 2)>>

\* PDFAdvancedExtractor.extract_enquiries_from_pdf on a section in which
\* the date pattern finds the texts enquiry_dates: datetime(year, month,
\* day) raises ValueError for a date the calendar does not have
extract_enquiries_from_pdf(enquiry_dates) ==
    LET valid == SelectSeq(enquiry_dates,
                     LAMBDA d : ValidDate(DashedNumbers(d)[1], DashedNumbers(d)[2],
                                          DashedNumbers(d)[3]))
        parsed_dates == [i \in 1..Len(valid) |-> DashedNumbers(valid[i])]
    IN  IF parsed_dates = <<>> THEN <<>>
        ELSE LET newest == MaxTuple({parsed_dates[i] : i \in 1..Len(parsed_dates)})
                 kept == SelectSeq(parsed_dates,
                            LAMBDA d : d[2] = newest[2] /\ d[1] = newest[1])
             IN  [i \in 1..Len(kept) |-> PdfEnquiry(kept[i])]

\* _extract_enquiries_from_html on a text: section.heading says whether the
\* heading pattern matches, section.lines are the stripped, non-empty lines
\* after the match
_extract_enquiries_from_html(section) ==
    IF ~section.heading THEN <<>>
    ELSE LET lines == IF section.lines # <<>> /\ HoldsHeadingNeedle(section.lines[1].text)
                      THEN Tail(section.lines) ELSE section.lines
         IN  _filter_latest_month_enquiries(EnquiryLoop(lines, 0))

\* a text without the enquiries heading
NoEnquirySection == [heading |-> FALSE, lines |-> <<>>]

\* the date lines the enquiry sections are drawn from: three months, one of
\* them with two dates, and a text that is no calendar date
EnquiryDates ==
    {EnquiryLine("30-11-2025"), EnquiryLine("24-12-2025"), EnquiryLine("05-01-2026"),
     EnquiryLine("17-01-2026"), EnquiryLine("31-02-2026")}

\* the section of these date lines: one date per line and, after the last
\* date, the purpose and the amount of the last enquiry
DateSection(dates) ==
    dates \o <<EnquiryLine("Personal Loan"), EnquiryLine("50,000")>>

\* the date texts \b(\d{2}-\d{2}-\d{4})\b finds in the lines, in text order
DateTexts(lines) == Concat([i \in 1..Len(lines) |-> lines[i].dashed])

NoLatest == [html |-> <<>>, pdf |-> <<>>]

InitEnq ==
    /\ pc = "enquiries"
    /\ now = StartDate
    /\ ProcIdle
    /\ dump = <<>>
    /\ workers = <<>>
    /\ \E n \in 0..MaxEnquiries : \E dates \in [1..n -> EnquiryDates] :
          /\ scan = [heading |-> TRUE, lines |-> DateSection(dates), i |-> n]
          /\ all_enquiries = EnquiryLoop(DateSection(dates), 0)
    /\ latest = NoLatest
    /\ file = NoFile
    /\ invoked = <<>>
    /\ outcome = ""
    /\ report = NoReport
    /\ dpd_history = <<>>
    /\ derived = NoDerived
    /\ accounts = <<>>
    /\ final_default = None

\* return _filter_latest_month_enquiries(all_enquiries)
FilterLatestMonth ==
    /\ pc = "enquiries"
    /\ latest' = [latest EXCEPT !.html = _filter_latest_month_enquiries(all_enquiries)]
    /\ pc' = "filtered"
    /\ UNCHANGED <<restVars, procVars, now, file, invoked, outcome, report, dpd_history, derived, accounts,
                   final_default, all_enquiries>>

\* extract_enquiries_from_pdf on a section with the same date texts
ExtractEnquiriesPdf ==
    /\ pc = "filtered"
    /\ latest' = [latest EXCEPT !.pdf =
            extract_enquiries_from_pdf(DateTexts(scan.lines))]
    /\ pc' = "both"
    /\ UNCHANGED <<restVars, procVars, now, file, invoked, outcome, report, dpd_history, derived, accounts,
                   final_default, all_enquiries>>

NextEnq == FilterLatestMonth \/ ExtractEnquiriesPdf

SpecEnq == InitEnq /\ [][NextEnq]_vars

(***************************************************************************)
(* Claims about the enquiry paths (checked under SpecEnq).                 *)
(***************************************************************************)
\* the number 100 * year + month of a parsed date "YYYY-MM-DD"
MonthNumber(parsed) ==
    100 * NumberOf(parsed[1], 1, Len(parsed[1]) - 6)
        + NumberOf(parsed[1], Len(parsed[1]) - 4, Len(parsed[1]) - 3)

\* the positions of the input enquiries that have a parsed date
Dated == {i \in 1..Len(all_enquiries) : all_enquiries[i].parsed_date # None}

\* the positions of the input enquiries in the latest month present
InLatestMonth ==
    {i \in Dated : \A j \in Dated :
        MonthNumber(all_enquiries[j].parsed_date) <= MonthNumber(all_enquiries[i].parsed_date)}

\* C6: the filter returns exactly the input enquiries of the chronologically
\* latest (year, month) among the parsed dates, in input order: none of
\* another month, as many as the input has in that month, nothing when no
\* enquiry has a parsed date; the month depends on the set of dates only,
\* not on their order; and the page-text path selects the same month.
C6_LatestMonthFilter ==
    pc \in {"filtered", "both"} =>
        LET out == latest.html
            positions == SetToSortedSeq(InLatestMonth)
        IN  /\ Len(out) = Cardinality(InLatestMonth)
            /\ \A k \in 1..Len(out) : out[k] = all_enquiries[positions[k]]
            /\ Dated = {} => out = <<>>
            /\ \A k \in 1..Len(out) :
                  MonthNumber(out[k].parsed_date) =
                      Max({MonthNumber(all_enquiries[i].parsed_date) : i \in Dated})
            /\ pc = "both" =>
                  /\ Len(latest.pdf) = Len(out)
                  /\ \A k \in 1..Len(out) : latest.pdf[k].parsed_date = out[k].parsed_date

\* enquiries of three months, two of them in the latest one with the two
\* older ones between them in the input: exactly the two are returned, in
\* input order, by both paths
C6_Witness ==
    /\ pc = "both"
    /\ Len(all_enquiries) = 4
    /\ all_enquiries[1].date = "17-01-2026"
    /\ all_enquiries[2].date = "30-11-2025"
    /\ all_enquiries[3].date = "24-12-2025"
    /\ all_enquiries[4].date = "05-01-2026"
    /\ latest.html = <<all_enquiries[1], all_enquiries[4]>>
    /\ Len(latest.pdf) = 2

(***************************************************************************)
(* The markup (HTML) path. The page text soup.get_text gives is the list   *)
(* of its lines, the texts between its newlines. A line is the record of   *)
(* its text and of what the patterns that cannot reach over a newline find *)
(* in it: heading the place where CONSUMER ACCOUNT DETAILS starts (0       *)
(* without one), pieces the texts re.split cuts the line into, mobiles and *)
(* emails what the two findall calls of _extract_basic_info find, words    *)
(* the words of the overdue summary the line holds. A piece is the record  *)
(* of its text and of cut (a delimiter stands before it), blank (nothing   *)
(* is left of it after strip), year the year a line of four digits spells, *)
(* toks the tokens DPD_TOKEN_RE finds, status group 1 of the status        *)
(* pattern, labels the places where the label of each field stands.        *)
(***************************************************************************)
\* CONSUMER ACCOUNT DETAILS under re.I
account_section_pattern == IgnoreCase(Lit("CONSUMER ACCOUNT DETAILS"))

\* (?i)(?:(?=\d{2}-\d{2}-\d{4})|MEMBER NAME|ACCOUNT TYPE|DATE OPENED)
account_delimiter ==
    IgnoreCase(Alt(<<Ahead(DashedDate), Lit("MEMBER NAME"), Lit("ACCOUNT TYPE"),
                     Lit("DATE OPENED")>>))

\* the literal each labelled pattern of html_patterns starts with, in
\* lower case
HtmlLabels ==
    [date_opened |-> "date opened", date_closed |-> "date closed",
     date_reported |-> "date reported", account_type |-> "account type",
     member_name |-> "member name", sanctioned_amount |-> "sanctioned amount",
     current_balance |-> "current balance"]

\* the words the patterns of the overdue summary start with, in lower case
SummaryWords == {"consumer", "overdue", "current"}

\* the texts before, between and after the matches found
SplitAt(found, text) ==
    [k \in 1..(Len(found) + 1) |->
        Slice(text, IF k = 1 THEN 1 ELSE found[k - 1].end,
              IF k > Len(found) THEN Len(text) + 1 ELSE found[k].start)]

\* re.split(pattern, text) for a pattern without group
re_split(re, text) == SplitAt(FindIter(re, text), text)

\* the key year_match.group(1) of a line the year pattern matches
YearOf(stripped) ==
    IF MatchAt(year_pattern, stripped, 1) = <<>> THEN None
    ELSE Some(NumberOf(GroupOf(MatchAt(year_pattern, stripped, 1)[1], stripped, 1)[1], 1, 4))

BlockLine(text, cut) ==
    [text |-> text, cut |-> cut, blank |-> Strip(text) = "",
     year |-> YearOf(Strip(text)),
     toks |-> FindAll(DPD_TOKEN_RE, Strip(text), 0),
     status |-> FirstGroup(html_patterns.status, text, 1),
     labels |-> [field \in DOMAIN HtmlLabels |-> Occurrences(HtmlLabels[field], Lower(text))]]

\* the pieces of a line: a delimiter stands before every piece but the
\* first
Pieces(texts) == [k \in 1..Len(texts) |-> BlockLine(texts[k], k > 1)]

\* m.start() of a match, 0 for None
StartOf(m) == IF m = <<>> THEN 0 ELSE m[1].start

HtmlLine(text) ==
    [text |-> text,
     heading |-> StartOf(Search(account_section_pattern, text)),
     pieces |-> Pieces(re_split(account_delimiter, text)),
     mobiles |-> FindAll(_patterns.mobile, text, 1),
     emails |-> FindAll(_patterns.email, text, 0),
     words |-> {w \in SummaryWords : Occurrences(w, Lower(text)) # {}}]

RECURSIVE Filler(_)
\* a text of n letters in which no pattern of the source matches
Filler(n) ==
    IF n = 0 THEN "" ELSE IF n = 1 THEN "q" ELSE Filler(n \div 2) \o Filler(n - n \div 2)

\* a line of n characters without token
TextLine(n) == HtmlLine(Filler(n))

\* a line of the four digits of a year
YearLine(y) == HtmlLine(str(y))

\* a line that holds one token of three characters
TokenLine(t) == HtmlLine(t)

\* the dash between two letters is a token
HyphenLine == HtmlLine("CO-OP")

\* no group of three digits: no token
SanctionedLine == HtmlLine("sanctioned amouNT: 7,50")

\* a line "sanctioned amouNT: val" or "current balance: val"
HtmlAmountLine(field, val) ==
    HtmlLine((IF field = "sanctioned_amount" THEN "sanctioned amouNT: " ELSE "current balance: ")
                 \o val)

\* a line that is a delimiter of re.split and nothing else
DelimiterLine == HtmlLine("MEMBER NAME")

\* the page text of account blocks that stand one after the other, a
\* delimiter line before each
PageLines(blocks) == Concat([i \in 1..Len(blocks) |-> <<DelimiterLine>> \o blocks[i]])

\* the text of the lines, joined as get_text joins them
PageText(lines) == Join([i \in 1..Len(lines) |-> lines[i].text], "\n")

\* full_text[account_section_match.start():] for the first line that holds
\* the heading
FromHeading(lines, first) ==
    <<IF lines[first].heading = 1 THEN lines[first]
      ELSE HtmlLine(Slice(lines[first].text, lines[first].heading,
                          Len(lines[first].text) + 1))>>
        \o SubSeq(lines, first + 1, Len(lines))

\* accounts_text, as lines: the text from the heading on, the full text
\* without a heading
accounts_text(lines) ==
    IF \A i \in 1..Len(lines) : lines[i].heading = 0 THEN lines
    ELSE FromHeading(lines, Min({i \in 1..Len(lines) : lines[i].heading > 0}))

\* the blocks of the pieces from the places starts on, each block up to
\* the piece before the next start
BlocksFrom(items, starts) ==
    [b \in 1..Len(starts) |->
        SubSeq(items, starts[b],
               IF b = Len(starts) THEN Len(items) ELSE starts[b + 1] - 1)]

\* the pieces of all lines, in text order: a block starts with the first
\* piece and with every piece a delimiter stands before
BlocksOf(items) ==
    BlocksFrom(items, SetToSortedSeq({k \in 1..Len(items) : k = 1 \/ items[k].cut}))

\* account_blocks = re.split(delimiters, accounts_text): every block is
\* the list of its pieces, one of each line it reaches into (the empty
\* text is one block of one empty piece)
account_blocks(lines) ==
    IF lines = <<>> THEN <<<<BlockLine("", FALSE)>>>>
    ELSE BlocksOf(Concat([i \in 1..Len(lines) |-> lines[i].pieces]))

\* block.strip() for the block of these pieces
BlockText(block) == Strip(Join([k \in 1..Len(block) |-> block[k].text], "\n"))

\* len(block) after the strip
BlockLen(block) == Len(BlockText(block))

\* the lines of _extract_dpd_history_improved: the pieces of the block
\* that are not blank
FilledLines(block) == SelectSeq(block, LAMBDA piece : ~piece.blank)

\* tokens of the (up to) 12 lines after the year line at position i
TokensAfter(lines, i) ==
    LET last == IF i + 12 < Len(lines) THEN i + 12 ELSE Len(lines)
    IN  Concat([j \in 1..(last - i) |-> lines[i + j].toks])

RECURSIVE YearLinesFrom(_, _, _)
\* the for loop over the lines, from the year lines at the positions hits
\* on: dpd_history[year] = ' '.join(tokens)
YearLinesFrom(lines, hits, history) ==
    IF hits = <<>> THEN history
    ELSE YearLinesFrom(lines, Tail(hits),
                       SetItem(history, lines[Head(hits)].year[1],
                               TokensAfter(lines, Head(hits))))

\* the loop on the lines that are left after the strip
DpdHistoryOfLines(lines) ==
    YearLinesFrom(lines,
                  SetToSortedSeq({i \in 1..Len(lines) :
                                     lines[i].year # None /\ TokensAfter(lines, i) # <<>>}),
                  <<>>)

\* _extract_dpd_history_improved: a year line with tokens after it sets
\* dpd_history[year]; a later line of the same year overwrites it
_extract_dpd_history_improved(block) == DpdHistoryOfLines(FilledLines(block))

RECURSIVE OffsetOf(_, _)
\* the number of characters before the text of lines[k] in the texts of
\* the lines joined by one character each
OffsetOf(lines, k) ==
    IF k = 1 THEN 0 ELSE OffsetOf(lines, k - 1) + Len(lines[k - 1].text) + 1

\* the number of characters strip takes from the start of a text
Lead(text) ==
    IF Outside(text, Spaces, 1) = {} THEN Len(text) ELSE Min(Outside(text, Spaces, 1)) - 1

\* the places of the label of a field in the joined texts of the lines
\* after strip has taken lead characters from their start
PlacesAfter(lines, field, lead) ==
    UNION {{OffsetOf(lines, k) + p - lead : p \in lines[k].labels[field]} :
              k \in {j \in 1..Len(lines) : lines[j].labels[field] # {}}}

\* the places where the label of a field stands in block.strip()
LabelPlaces(block, field) ==
    PlacesAfter(block, field, Lead(Join([k \in 1..Len(block) |-> block[k].text], "\n")))

\* the match of the field's pattern in the block, None without one:
\* re.search(pattern, block, re.I), whose matches start where the label
\* stands
HtmlFieldMatch(block, field) ==
    IF \A k \in 1..Len(block) : block[k].labels[field] = {} THEN None
    ELSE SearchIn(html_patterns[field], BlockText(block), LabelPlaces(block, field))

\* val = match.group(1).strip()
StrippedGroup(m, text) == Strip(GroupOf(m[1], text, 1)[1])

\* account[field] of a field that is no amount, for the match m of its
\* pattern in text: unchanged without a match, else val if val and val not
\* in (':', '') else None
TextFieldOf(m, text, unmatched) ==
    IF m = None THEN unmatched
    ELSE IF StrippedGroup(m, text) \in {"", ":"} THEN None
    ELSE Some(StrippedGroup(m, text))

HtmlTextField(block, field, unmatched) ==
    TextFieldOf(HtmlFieldMatch(block, field), BlockText(block), unmatched)

\* account[field] of an amount: unchanged without a match, else
\* _clean_amount(val) or "0"
AmountFieldOf(m, text, unmatched) ==
    IF m = None THEN unmatched ELSE Some(_clean_amount(StrippedGroup(m, text)))

HtmlAmountField(block, field, unmatched) ==
    AmountFieldOf(HtmlFieldMatch(block, field), BlockText(block), unmatched)

\* account['status']: group 1 of the first match of the status pattern,
\* which stands in the first piece that holds one
HtmlStatusField(block, unmatched) ==
    IF \A k \in 1..Len(block) : block[k].status = None THEN unmatched
    ELSE Some(Strip(block[Min({k \in 1..Len(block) : block[k].status # None})].status[1]))

\* the account with the DPD history of its block and the reasoning on it
WithHistory(account, history) ==
    [account EXCEPT !.dpd_history = history,
                    !.deterioration_reasoning = _get_deterioration_reasoning(history)]

\* the account dict of block i (counted from 1) of account_blocks
HtmlAccount(block, i) ==
    WithHistory(
    [HtmlAccountDefaults(i) EXCEPT
        !.date_opened = HtmlTextField(block, "date_opened", @),
        !.date_closed = HtmlTextField(block, "date_closed", @),
        !.date_reported = HtmlTextField(block, "date_reported", @),
        !.status = HtmlStatusField(block, @),
        !.account_type = HtmlTextField(block, "account_type", @),
        !.member_name = HtmlTextField(block, "member_name", @),
        !.sanctioned_amount = HtmlAmountField(block, "sanctioned_amount", @),
        !.current_balance = HtmlAmountField(block, "current_balance", @)],
    _extract_dpd_history_improved(block))

\* the accounts of the blocks at the positions kept, in block order
AccountsOfBlocks(blocks, kept) ==
    [k \in 1..Len(kept) |-> HtmlAccount(blocks[kept[k]], kept[k])]

\* a variant that skips a block of 50 characters as well (<= 50)
MutantAccountsOf(blocks) ==
    AccountsOfBlocks(blocks, SetToSortedSeq({i \in 1..Len(blocks) : BlockLen(blocks[i]) > 50}))

Mutant_extract_accounts_from_html(lines) == MutantAccountsOf(account_blocks(accounts_text(lines)))

\* one account per block of at least 50 characters, in block order
AccountsOf(blocks) ==
    AccountsOfBlocks(blocks, SetToSortedSeq({i \in 1..Len(blocks) : BlockLen(blocks[i]) >= 50}))

\* _extract_accounts_from_html on the lines of the page text
_extract_accounts_from_html(lines) == AccountsOf(account_blocks(accounts_text(lines)))

\* the first match among the places starts from the place from on, and the
\* matches after it
RECURSIVE FindAmong(_, _, _, _)
FindNextAmong(re, text, starts, m) ==
    IF m = <<>> THEN <<>>
    ELSE m \o FindAmong(re, text, starts,
                        IF m[1].end > m[1].start THEN m[1].end ELSE m[1].end + 1)

\* pattern.finditer(text) for a pattern whose matches start at one of the
\* places starts
FindAmong(re, text, starts, from) ==
    FindNextAmong(re, text, starts, SearchIn(re, text, {p \in starts : p >= from}))

\* what _extract_overdue_summary_from_html_text returns without a figure
NoOverdueSummary ==
    [total_overdue_accounts |-> None, total_overdue_amount |-> None,
     total_current_amount |-> None]

\* section: group 1 of the summary pattern, the full text without a match
SummarySection(full_text) ==
    IF SearchIn(summary_section, full_text, Occurrences("consumer", Lower(full_text))) = <<>>
    THEN full_text
    ELSE GroupOf(SearchIn(summary_section, full_text,
                          Occurrences("consumer", Lower(full_text)))[1], full_text, 1)[1]

\* re.sub(r'\s+', ' ', section).strip()
Normalized(section) == Strip(Squeezed(section, 1, Len(section)))

\* group 1 of the first match of a pattern that starts with the word, None
\* without a match
SummaryGroup(re, word, normalized) ==
    IF SearchIn(re, normalized, Occurrences(word, Lower(normalized))) = <<>> THEN None
    ELSE GroupOf(SearchIn(re, normalized, Occurrences(word, Lower(normalized)))[1],
                 normalized, 1)

\* int(cleaned) if cleaned.isdigit() else None, for cleaned =
\* _clean_amount(group 1) of a match
CleanedNumber(group) ==
    IF group = None THEN None ELSE int(_clean_amount(group[1]))

\* the three figures read from the normalized text of the section
SummaryOf(normalized) ==
    [total_overdue_accounts |->
        IF SummaryGroup(html_overdue_count, "overdue", normalized) = None THEN None
        ELSE int(SummaryGroup(html_overdue_count, "overdue", normalized)[1]),
     total_overdue_amount |->
        IF SummaryGroup(html_overdue_amount, "overdue", normalized) # None
        THEN CleanedNumber(SummaryGroup(html_overdue_amount, "overdue", normalized))
        ELSE CleanedNumber(SummaryGroup(html_overdue_fallback, "overdue", normalized)),
     total_current_amount |->
        CleanedNumber(SummaryGroup(html_current, "current", normalized))]

\* _extract_overdue_summary_from_html_text on the lines of the page text:
\* no pattern matches in a text without the words overdue and current
_extract_overdue_summary_from_html_text(lines) ==
    IF \A i \in 1..Len(lines) : lines[i].words \subseteq {"consumer"} THEN NoOverdueSummary
    ELSE SummaryOf(Normalized(SummarySection(PageText(lines))))

\* list(set(found)): the lists that hold every text found once, the hash
\* seed of the process deciding which one the call builds
Listings(found) == Orders({found[k] : k \in 1..Len(found)})

\* what the two findall calls of _extract_basic_info find in the text
MobilesOf(lines) == Concat([i \in 1..Len(lines) |-> lines[i].mobiles])

EmailsOf(lines) == Concat([i \in 1..Len(lines) |-> lines[i].emails])

(***************************************************************************)
(* The page-text (PDF) path. The text of the pages is the list of its      *)
(* lines, the texts between its newlines. A line is the record of its text *)
(* and of what the code reads from it: blank (nothing is left of it after  *)
(* strip), hdr (the grid header DAYS PAST DUE/ASSET CLASSIFICATION is      *)
(* found), acct (ACCOUNT, DATES, AMOUNTS and STATUS are in the line), upto *)
(* ("(UP TO" is in the upper-cased line), toks the tokens DPD_TOKEN_RE     *)
(* finds, statuses and months what the status_token and month_token        *)
(* patterns find, labels the places where the label of each metadata field *)
(* stands in the stripped line, words the words of the overdue summary the *)
(* line holds, mobiles and emails what the two findall calls of            *)
(* _extract_basic_info find.                                               *)
(***************************************************************************)
\* the literal each pattern of field_patterns starts with, in lower case
PdfLabels ==
    [member_name |-> "member name", date_opened |-> "opened", date_closed |-> "closed",
     sanctioned_amount |-> "sanctioned", current_balance |-> "current balance",
     overdue_amount |-> "overdue", account_type |-> "type",
     date_reported |-> "reported and certified"]

PdfLine(text) ==
    [text |-> text,
     blank |-> Strip(text) = "",
     hdr |-> Search(_patterns.dpd_header, text) # <<>>,
     acct |-> \A word \in {"ACCOUNT", "DATES", "AMOUNTS", "STATUS"} :
                 Occurrences(word, text) # {},
     upto |-> Occurrences("(UP TO", Upper(text)) # {},
     toks |-> FindAll(DPD_TOKEN_RE, text, 0),
     statuses |-> FindAll(_patterns.status_token, text, 1),
     months |-> FindAll(_patterns.month_token, text, 1),
     labels |-> [field \in DOMAIN PdfLabels |->
                    Occurrences(PdfLabels[field], Lower(Strip(text)))],
     words |-> {w \in {"overdue", "current"} : Occurrences(w, Lower(text)) # {}},
     mobiles |-> FindAll(_patterns.mobile, text, 1),
     emails |-> FindAll(_patterns.email, text, 0)]

\* the title of a grid
HeaderLine == PdfLine("DAYS PAST DUE/ASSET CLASSIFICATION")

\* the column titles an account starts with
AccountLine == PdfLine("ACCOUNT DATES AMOUNTS STATUS")

\* a row of status tokens
StatusRow(toks) == PdfLine(Join(toks, " "))

\* a row of month stamps mm-yy
MonthsRow(months) == PdfLine(Join(months, " "))

MemberLine == PdfLine("MEMBER NAME: HDFC")

\* the line under a title of a grid
UpToLine == PdfLine("(UP TO 36 MONTHS; LEFT TO RIGHT)")

BlankLine == PdfLine("")

\* the text the patterns of the page-text path write before the amount of
\* a field
PdfAmountLabels ==
    [sanctioned_amount |-> "SANCTIONED", current_balance |-> "CURRENT BALANCE",
     overdue_amount |-> "OVERDUE", current |-> "CURRENT"]

\* a line LABEL: val of the page text with an amount after the label
PdfAmountLine(field, val) == PdfLine(PdfAmountLabels[field] \o ": " \o val)

\* the lines of extract_deteriorating_accounts_pdf: the lines of the text
\* that are not blank, each one stripped
StrippedLine(line) == [line EXCEPT !.text = Strip(line.text)]

StrippedLines(filled) == [k \in 1..Len(filled) |-> StrippedLine(filled[k])]

PdfFilledLines(lines) == StrippedLines(SelectSeq(lines, LAMBDA line : ~line.blank))

\* mm, yy = month.split('-'); year = f"20{yy}"
StampYear(month) == 2000 + NumberOf(month, 4, 5)

RECURSIVE GroupByYear(_, _, _, _)
\* the loop over months[:len(tokens)] from position idx (counted from 1):
\* yearly_dpd[year].append(tokens[idx]), a year new to yearly_dpd first
\* set to the empty list
GroupByYear(months, tokens, idx, yearly_dpd) ==
    IF idx > Min({Len(months), Len(tokens)}) THEN yearly_dpd
    ELSE GroupByYear(months, tokens, idx + 1,
                     SetItem(yearly_dpd, StampYear(months[idx]),
                             Append(IF StampYear(months[idx]) \in KeySet(yearly_dpd)
                                    THEN Item(yearly_dpd, StampYear(months[idx])) ELSE <<>>,
                                    tokens[idx])))

\* the dict built from the tokens and month stamps found
DpdHistoryOf(tokens, months) ==
    IF tokens = <<>> THEN <<>>
    ELSE IF GroupByYear(months, tokens, 1, <<>>) = <<>> THEN <<<<UNKNOWN, tokens>>>>
    ELSE GroupByYear(months, tokens, 1, <<>>)

\* _extract_dpd_history_pdf on " ".join(block) for the lines of block: a
\* token or a stamp stands within one line
_extract_dpd_history_pdf(block) ==
    DpdHistoryOf(Concat([i \in 1..Len(block) |-> block[i].toks]),
                 Concat([i \in 1..Len(block) |-> block[i].months]))

\* the fields _extract_pdf_account_metadata searches for
PdfFieldNames == DOMAIN PdfLabels

\* "\n".join(lines) for stripped lines
MetaText(block) == Join([k \in 1..Len(block) |-> block[k].text], "\n")

\* re.search(pattern, block, re.I) for the pattern of a field, whose
\* matches start where the label stands: None in a block without the label
PdfFieldMatch(block, field) ==
    IF \A k \in 1..Len(block) : block[k].labels[field] = {} THEN None
    ELSE SearchIn(field_patterns[field], MetaText(block), PlacesAfter(block, field, 0))

\* account[field] for a field whose pattern matches with m
PdfFieldValue(field, m, text) ==
    IF field \in {"sanctioned_amount", "current_balance", "overdue_amount"}
    THEN Some(_clean_amount(GroupOf(m[1], text, 1)[1]))
    ELSE Some(Strip(GroupOf(m[1], text, 1)[1]))

\* _extract_pdf_account_metadata: a key for every field whose pattern
\* matches in the block, with the text of the first match
_extract_pdf_account_metadata(block) ==
    [field \in {f \in PdfFieldNames : PdfFieldMatch(block, f) # None} |->
        PdfFieldValue(field, PdfFieldMatch(block, field), MetaText(block))]

max_accounts == 200

\* the metadata window reaches 25 lines back and 60 lines on from a header
MetaBack == 25

MetaAhead == 60

\* the position of the first line after the header at position i that
\* starts an account or is a header, the position after the last line
\* without one
AfterHeader(lines, i) ==
    IF \A j \in (i + 1)..Len(lines) : ~lines[j].acct /\ ~lines[j].hdr THEN Len(lines) + 1
    ELSE Min({j \in (i + 1)..Len(lines) : lines[j].acct \/ lines[j].hdr})

\* the account dict built at the header at position i (1-based)
PdfAccountAt(lines, i, account_idx) ==
    LET meta_start == Max({1, i - MetaBack})
        meta_end == Min({Len(lines), i - 1 + MetaAhead})
        history == _extract_dpd_history_pdf(SubSeq(lines, i, AfterHeader(lines, i) - 1))
    IN  [k \in {"account_index", "dpd_history", "deterioration_reasoning"} |->
            CASE k = "account_index" -> account_idx
              [] k = "dpd_history" -> history
              [] OTHER -> _get_deterioration_reasoning(history)]
        @@ _extract_pdf_account_metadata(SubSeq(lines, meta_start, meta_end))

\* a variant that stays at the header
MutantAfterBlock(lines, i) == i

\* the position the scan continues at after the header at position i
AfterBlock(lines, i) == AfterHeader(lines, i)

\* a variant that appends every account
MutantRetained(account) == <<account>>

\* if reasoning: deteriorating_accounts.append(account)
Retained(account) ==
    IF account["deterioration_reasoning"] # NoReasoning THEN <<account>> ELSE <<>>

RECURSIVE PdfScan(_, _, _)
\* the while loop of extract_deteriorating_accounts_pdf from position i
PdfScan(lines, i, account_idx) ==
    IF i > Len(lines) THEN <<>>
    ELSE IF lines[i].hdr
    THEN IF account_idx > max_accounts THEN <<>>
         ELSE Retained(PdfAccountAt(lines, i, account_idx))
                  \o PdfScan(lines, AfterBlock(lines, i), account_idx + 1)
    ELSE PdfScan(lines, i + 1, account_idx)

\* extract_deteriorating_accounts_pdf on the lines of the text
extract_deteriorating_accounts_pdf(lines) == PdfScan(PdfFilledLines(lines), 1, 1)

(***************************************************************************)
(* The report (_build_unified_structure of both extractors).               *)
(***************************************************************************)
\* the keys both _build_unified_structure methods read and write
BasicInfoKeys ==
    {"name", "pan_card", "ckyc", "report_date", "score", "mobile_numbers", "emails"}

OverdueKeys == {"total_overdue_accounts", "total_overdue_amount", "total_current_amount"}

\* the report dict; its extraction_timestamp keeps the year of now(), read
\* after the two reads of the final default month (clock, in call order)
_build_unified_structure(basic_info, enquiries, accts, overdue_summary, format_type, clock) ==
    [basic_info |-> [k \in BasicInfoKeys |-> Get(basic_info, k, None)],
     enquiries |-> [latest_month_enquiries |-> enquiries, total_count |-> Len(enquiries)],
     accounts |->
        [accounts_list |-> accts,
         total_accounts_extracted |-> Len(accts),
         final_dpd_average |-> FinalDpdAverage(accts),
         final_default_month_average |-> FinalDefaultMonthAvg(accts, clock[1], clock[2])],
     overdue_summary |-> [k \in OverdueKeys |-> Get(overdue_summary, k, None)],
     metadata |-> [format |-> format_type, extraction_timestamp |-> clock[3]]]

\* a value that is a str, and a value that is an int: a report can hold
\* either under the same key
Text(chars) == [text |-> chars]

Number(n) == [number |-> n]

\* _first_match for a pattern whose first non-empty group is the text
\* captured (the empty text: the pattern does not match)
_first_match(captured) == IF captured = "" THEN None ELSE Some(Text(Strip(captured)))

\* PDFAdvancedExtractor.extract_score: candidates holds, in the order of
\* score_patterns, the three digits captured by every pattern that matches
extract_score(candidates) ==
    LET fits == {i \in 1..Len(candidates) : int(candidates[i])[1] \in 300..900}
    IN  IF fits = {} THEN None ELSE Some(Number(int(candidates[Min(fits)])[1]))

\* e.lower() for every address found
LoweredEach(found) == [k \in 1..Len(found) |-> Lower(found[k])]

\* the two lists of _extract_basic_info as a call can build them from the
\* lines of the text: list(set(...)) of the numbers found and of the
\* lower-cased addresses found
ListingsOf(lines) ==
    {[mobile_numbers |-> mobile_numbers, emails |-> emails] :
        mobile_numbers \in Listings(MobilesOf(lines)),
        emails \in Listings(LoweredEach(EmailsOf(lines)))}

\* HTMLExtractor._extract_basic_info on a text in which the patterns of the
\* keys of facts match: facts.score is the text the score pattern captures,
\* facts.fallback_score the one the fallback pattern captures; listed holds
\* the two lists as this call builds them
_extract_basic_info(facts, listed) ==
    [k \in BasicInfoKeys \ {"mobile_numbers", "emails", "score"} |-> Get(facts, k, None)]
        @@ [k \in {"mobile_numbers", "emails"} |-> listed[k]]
        @@ [score |-> OrElse(_first_match(Get(facts, "score", "")),
                             _first_match(Get(facts, "fallback_score", "")))]

\* PDFExtractor._extract_basic_info: facts.advanced holds the candidates of
\* extract_score
PdfBasicInfo(facts, listed) ==
    [k \in BasicInfoKeys \ {"mobile_numbers", "emails", "score"} |-> Get(facts, k, None)]
        @@ [k \in {"mobile_numbers", "emails"} |-> listed[k]]
        @@ [score |-> OrElse(extract_score(Get(facts, "advanced", <<>>)),
                             _first_match(Get(facts, "score", "")))]

\* what a call gives back: the value it returns, or the exception it raises
Returns(value) == [raised |-> "", value |-> value]

Raises(exception) == [raised |-> exception, value |-> <<>>]

\* match.group(1).replace(',', '') of every match found
WithoutCommas(found, text) ==
    [k \in 1..Len(found) |-> Without(GroupOf(found[k], text, 1)[1], {","})]

\* the first val of the current matches with val.isdigit()
FirstNumeric(vals) ==
    IF \A k \in 1..Len(vals) : ~IsDigit(vals[k]) THEN None
    ELSE int(vals[Min({k \in 1..Len(vals) : IsDigit(vals[k])})])

\* the summary built from the first match of the count pattern and from
\* the matches of the two amount patterns: the second match of the overdue
\* amount pattern goes to int() as it is captured, commas removed
OverdueSummaryFrom(count_match, amounts, currents, text) ==
    IF Len(amounts) > 1 /\ int(amounts[2]) = None THEN Raises("ValueError")
    ELSE Returns(
        [total_overdue_accounts |->
             IF count_match = <<>> THEN None ELSE int(GroupOf(count_match[1], text, 1)[1]),
         total_overdue_amount |-> IF Len(amounts) > 1 THEN int(amounts[2]) ELSE None,
         total_current_amount |-> FirstNumeric(currents)])

\* the searches of extract_overdue_summary in the text: a match of a
\* pattern starts where its word stands
OverdueSummaryOfText(text, overdue_at, current_at) ==
    OverdueSummaryFrom(
        SearchIn(_patterns.overdue_count, text, overdue_at),
        WithoutCommas(FindAmong(_patterns.overdue_amount, text, overdue_at, 1), text),
        WithoutCommas(FindAmong(_patterns.current_amount, text, current_at, 1), text),
        text)

\* PDFAdvancedExtractor.extract_overdue_summary on the lines of the text:
\* no pattern matches in a text without the words overdue and current
extract_overdue_summary(lines) ==
    IF \A i \in 1..Len(lines) : lines[i].words = {} THEN Returns(NoOverdueSummary)
    ELSE OverdueSummaryOfText(PageText(lines),
                              Occurrences("overdue", Lower(PageText(lines))),
                              Occurrences("current", Lower(PageText(lines))))

\* the statements of HTMLExtractor.extract before its return statement,
\* which read no clock: the arguments of _build_unified_structure. The list
\* comprehension over accounts after the conversion rebinds a name that is
\* not read again
HtmlSteps(doc, listed) ==
    [raised |-> "",
     basic_info |-> _extract_basic_info(doc.facts, listed),
     enquiries |-> _extract_enquiries_from_html(doc.enquiry_section),
     accounts |-> _convert_html_accounts_to_unified(_extract_accounts_from_html(doc.content)),
     overdue_summary |-> _extract_overdue_summary_from_html_text(doc.content),
     format_type |-> "HTML"]

\* the statements of PDFExtractor.extract before its return statement: an
\* exception of a step ends the call
PdfSteps(doc, listed) ==
    LET basic_info == PdfBasicInfo(doc.facts, listed)
        overdue_summary == extract_overdue_summary(doc.content)
        enquiries == extract_enquiries_from_pdf(DateTexts(doc.enquiry_section.lines))
        deteriorating_accounts == extract_deteriorating_accounts_pdf(doc.content)
        unified_accounts == _convert_pdf_accounts_to_unified(deteriorating_accounts)
    IN  IF overdue_summary.raised # ""
        THEN [raised |-> overdue_summary.raised, basic_info |-> basic_info,
              enquiries |-> <<>>, accounts |-> <<>>, overdue_summary |-> <<>>,
              format_type |-> "PDF"]
        ELSE [raised |-> "", basic_info |-> basic_info, enquiries |-> enquiries,
              accounts |-> unified_accounts, overdue_summary |-> overdue_summary.value,
              format_type |-> "PDF"]

\* return self._build_unified_structure(...) after these statements, with
\* the years the clock reads of the call report
ReturnReport(steps, clock) ==
    IF steps.raised # "" THEN Raises(steps.raised)
    ELSE Returns(_build_unified_structure(steps.basic_info, steps.enquiries, steps.accounts,
                                          steps.overdue_summary, steps.format_type, clock))

\* HTMLExtractor.extract on the document
HTMLExtractor_extract(doc, listed, clock) == ReturnReport(HtmlSteps(doc, listed), clock)

\* PDFExtractor.extract on the document
PDFExtractor_extract(doc, listed, clock) == ReturnReport(PdfSteps(doc, listed), clock)

(***************************************************************************)
(* The dispatcher CIBILDataExtractor.extract.                              *)
(***************************************************************************)
\* the suffixes of the paths extract is called with
Exts == {".pdf", ".PDF", ".html", ".htm", ".HTM", ".txt", ""}

\* self._extractors: the class of the extractor registered for a suffix
_extractors ==
    (".pdf" :> "PDFExtractor") @@ (".html" :> "HTMLExtractor") @@ (".htm" :> "HTMLExtractor")

\* a variant that looks at the format before it looks for the file
MutantSelectExtractor(f) ==
    IF Lower(f.ext) \notin DOMAIN _extractors THEN [error |-> "ValueError", key |-> ""]
    ELSE IF ~f.exists THEN [error |-> "FileNotFoundError", key |-> ""]
    ELSE [error |-> "", key |-> Lower(f.ext)]

\* the two checks of extract: the exception it raises, or the key of the
\* extractor it calls
SelectExtractor(f) ==
    IF ~f.exists THEN [error |-> "FileNotFoundError", key |-> ""]
    ELSE IF Lower(f.ext) \notin DOMAIN _extractors THEN [error |-> "ValueError", key |-> ""]
    ELSE [error |-> "", key |-> Lower(f.ext)]

\* the statements before the return of self._extractors[ext].extract
ExtractorSteps(class, doc, listed) ==
    IF class = "PDFExtractor" THEN PdfSteps(doc, listed) ELSE HtmlSteps(doc, listed)

\* self._extractors[ext].extract(file_path)
RunExtractor(class, doc, listed, clock) ==
    IF class = "PDFExtractor" THEN PDFExtractor_extract(doc, listed, clock)
    ELSE HTMLExtractor_extract(doc, listed, clock)

(***************************************************************************)
(* The documents extract is called on and the specification of a call.     *)
(***************************************************************************)
\* lines of a markup document
Text44 == TextLine(44)

Text30 == TextLine(30)

Year2025 == YearLine(2025)

Year2026 == YearLine(2026)

Token000 == TokenLine("000")

Token015 == TokenLine("015")

Token032 == TokenLine("032")

TokenStd == TokenLine("std")

ReportedLine == HtmlLine("DATE REPORTED: Y")

\* the blocks of the markup documents: 44, 49 and exactly 50 characters
\* without history; histories that deteriorate, that are clean and that
\* span two years; a block with an amount, a day of report and a status
\* word
HtmlBlocks ==
    {<<Text44>>,
     <<Text44, Year2026>>,
     <<Text44, HyphenLine>>,
     <<Text44, Year2026, Token000, Token015>>,
     <<Text44, Year2025, Token015, Year2026, Token000>>,
     <<Text44, Year2025, Token032, Year2026, Token015, Token015>>,
     <<Text44, Year2026, Token000>>,
     <<SanctionedLine, ReportedLine, Text30, Year2026, TokenStd, HyphenLine>>}

\* rows of a page-text document
Row000015 == StatusRow(<<"000", "015">>)

Row000 == StatusRow(<<"000">>)

RowDec25Jan26 == MonthsRow(<<"12-25", "01-26">>)

\* the lines of the page-text documents
PdfLines == {HeaderLine, AccountLine, Row000015, Row000, RowDec25Jan26}

\* the lines of an enquiries section with two enquiries of different
\* months, each one a member, a date, a purpose and an amount
TwoEnquiries ==
    <<EnquiryLine("HDFC BANK"), EnquiryLine("24-12-2025"), EnquiryLine("Personal Loan"),
      EnquiryLine("50,000"), EnquiryLine("HDFC BANK"), EnquiryLine("05-01-2026"),
      EnquiryLine("Personal Loan"), EnquiryLine("50,000")>>

\* two lines with one phone number and with one address written in two
\* ways
ContactTexts == <<"MOBILE 9876543210", "m@x.co M@X.CO">>

\* the same with two phone numbers
TwoNumberTexts == <<"MOBILE 9876543210 9123456780", "m@x.co M@X.CO">>

\* what a document holds before its accounts: nothing the patterns match,
\* or a name, a score, two contact lines (html and pdf: as lines of either
\* format; the page text names a member after them) and an enquiries
\* section
FrontsWith(contacts) ==
    {[facts |-> <<>>, enquiry_section |-> NoEnquirySection, html |-> <<>>, pdf |-> <<>>],
     [facts |-> [name |-> Some("RAVI KUMAR"), score |-> "742"],
      enquiry_section |-> [heading |-> TRUE, lines |-> TwoEnquiries],
      html |-> [k \in 1..Len(contacts) |-> HtmlLine(contacts[k])],
      pdf |-> [k \in 1..Len(contacts) |-> PdfLine(contacts[k])] \o <<MemberLine>>]}

Fronts == FrontsWith(ContactTexts)

\* the document of what stands before the accounts and of the lines of the
\* text
Document(front, content) ==
    [facts |-> front.facts, enquiry_section |-> front.enquiry_section, content |-> content]

EmptyDocument == [facts |-> <<>>, enquiry_section |-> NoEnquirySection, content |-> <<>>]

\* the most lines or blocks of a document under a suffix: most under .pdf
\* and .html, one under another spelling of a registered suffix
MostUnder(ext, most) == IF ext \in {".pdf", ".html"} THEN most ELSE Min({most, 1})

\* a call of extract is about to start on a file that is missing or holds
\* a document of at most max_lines lines of page text or max_blocks blocks
\* of markup
InitWith(fronts, max_lines, max_blocks) ==
    /\ pc = "call"
    /\ now = StartDate
    /\ ProcIdle
    /\ RestIdle
    /\ \E exists \in BOOLEAN : \E ext \in Exts :
          \/ /\ ~exists \/ Lower(ext) \notin DOMAIN _extractors
             /\ file = [exists |-> exists, ext |-> ext, kind |-> "", content |-> EmptyDocument]
          \/ /\ exists
             /\ Lower(ext) = ".pdf"
             /\ \E front \in fronts : \E n \in 0..MostUnder(ext, max_lines) :
                \E lines \in [1..n -> PdfLines] :
                   file = [exists |-> TRUE, ext |-> ext, kind |-> "PDF",
                           content |-> Document(front, front.pdf \o lines)]
          \/ /\ exists
             /\ Lower(ext) \in {".html", ".htm"}
             /\ \E front \in fronts : \E n \in 0..MostUnder(ext, max_blocks) :
                \E blocks \in [1..n -> HtmlBlocks] :
                   file = [exists |-> TRUE, ext |-> ext, kind |-> "HTML",
                           content |-> Document(front, front.html \o PageLines(blocks))]
    /\ invoked = <<>>
    /\ outcome = ""
    /\ report = NoReport
    /\ dpd_history = <<>>
    /\ derived = NoDerived
    /\ accounts = <<>>
    /\ final_default = None
    /\ all_enquiries = <<>>
    /\ latest = NoLatest

Init == InitWith(Fronts, MaxPdfLines, MaxBlocks)

\* the call self._extractors[ext].extract(file_path) ends with extracted,
\* its last clock read reporting the year last_now: extract raises what it
\* raised or returns its report, kept after the earlier ones
EndCall(key, extracted, earlier, last_now) ==
    /\ invoked' = Append(invoked, [ext |-> key, extractor |-> _extractors[key]])
    /\ report' = IF extracted.raised # "" THEN report ELSE Append(earlier, extracted.value)
    /\ outcome' = IF extracted.raised # "" THEN extracted.raised ELSE "returned"
    /\ now' = IF extracted.raised # "" THEN now ELSE DateIn(now, last_now)

\* the call of the registered extractor: its statements before the return,
\* then the return under the years its clock reads report
CallExtractor(key, steps, earlier) ==
    \E clock \in Clocks(now[1]) : EndCall(key, ReturnReport(steps, clock), earlier, clock[3])

\* CIBILDataExtractor.extract(file_path): raise, or call the registered
\* extractor, which builds its two lists in one of the orders of their
\* sets, and return its report. The call is the first one on the file, or
\* a second one after the first returned its report; report keeps the
\* reports in call order
ExtractCall(first) ==
    /\ pc = IF first THEN "call" ELSE "done"
    /\ first \/ outcome = "returned"
    /\ LET selected == SelectExtractor(file)
       IN  IF selected.error # ""
           THEN /\ outcome' = selected.error
                /\ UNCHANGED <<invoked, report, now>>
           ELSE \E listed \in ListingsOf(file.content.content) :
                   CallExtractor(selected.key,
                                 ExtractorSteps(_extractors[selected.key], file.content, listed),
                                 IF first THEN <<>> ELSE report)
    /\ pc' = IF first THEN "done" ELSE "again"
    /\ UNCHANGED <<restVars, procVars, file, dpd_history, derived, accounts, final_default, all_enquiries, latest>>

\* the first call on the file
Extract == ExtractCall(TRUE)

Next == Extract

Spec == Init /\ [][Next]_vars

(***************************************************************************)
(* Claims about a call of extract (checked under Spec).                    *)
(***************************************************************************)
\* the report of a call that returned
Returned == report[1]

AccountsList == Returned.accounts.accounts_list

\* C1: extract looks for the file before it looks at the format. A path
\* that does not exist ends in FileNotFoundError whatever its suffix; an
\* existing path whose lower-cased suffix is none of .pdf, .html, .htm ends
\* in ValueError; in both cases no extractor was invoked and there is no
\* report. Otherwise exactly the extractor registered for the lower-cased
\* suffix was invoked, once.
C1_ExistenceBeforeFormat ==
    pc = "done" =>
        /\ ~file.exists =>
              outcome = "FileNotFoundError" /\ invoked = <<>> /\ report = NoReport
        /\ file.exists /\ file.ext \notin {".pdf", ".PDF", ".html", ".htm", ".HTM"} =>
              outcome = "ValueError" /\ invoked = <<>> /\ report = NoReport
        /\ file.exists /\ file.ext \in {".pdf", ".PDF"} =>
              /\ invoked = <<[ext |-> ".pdf", extractor |-> "PDFExtractor"]>>
              /\ outcome = "returned"
              /\ Returned.metadata.format = "PDF"
        /\ file.exists /\ file.ext = ".html" =>
              /\ invoked = <<[ext |-> ".html", extractor |-> "HTMLExtractor"]>>
              /\ outcome = "returned"
              /\ Returned.metadata.format = "HTML"
        /\ file.exists /\ file.ext \in {".htm", ".HTM"} =>
              /\ invoked = <<[ext |-> ".htm", extractor |-> "HTMLExtractor"]>>
              /\ outcome = "returned"
              /\ Returned.metadata.format = "HTML"

\* an existing file with the suffix .HTM went to the extractor registered
\* for .htm
C1_Witness ==
    /\ pc = "done"
    /\ file.exists
    /\ file.ext = ".HTM"
    /\ PageText(file.content.content)
          = "MEMBER NAME\n" \o Filler(44) \o "\nCO-OP"
    /\ invoked = <<[ext |-> ".htm", extractor |-> "HTMLExtractor"]>>
    /\ outcome = "returned"

\* the keys of an account record of the format
DeclaredAccountKeys(format) ==
    {"account_index", "deterioration_reasoning", "date_opened", "date_closed",
     "date_reported", "account_type", "member_name", "sanctioned_amount",
     "current_balance", "default_month_number", "dpd_history", "dpd_summary"}
        \cup (IF format = "PDF" THEN {"overdue_amount"}
              ELSE {"original_html_index", "status"})

\* C2: every report extract returns, for either format and whatever was
\* matched, has all its keys: basic_info with its seven fields, enquiries
\* with list and count, accounts with list, total and the two final
\* averages, overdue_summary with its three fields, metadata with format
\* and timestamp; every account of the list has every key of its format,
\* and its amounts are never None.
C2_FullyPopulated ==
    outcome = "returned" =>
        /\ DOMAIN Returned =
              {"basic_info", "enquiries", "accounts", "overdue_summary", "metadata"}
        /\ DOMAIN Returned.basic_info =
              {"name", "pan_card", "ckyc", "report_date", "score", "mobile_numbers", "emails"}
        /\ DOMAIN Returned.enquiries = {"latest_month_enquiries", "total_count"}
        /\ Returned.enquiries.total_count = Len(Returned.enquiries.latest_month_enquiries)
        /\ DOMAIN Returned.accounts =
              {"accounts_list", "total_accounts_extracted", "final_dpd_average",
               "final_default_month_average"}
        /\ Returned.accounts.total_accounts_extracted = Len(AccountsList)
        /\ DOMAIN Returned.overdue_summary =
              {"total_overdue_accounts", "total_overdue_amount", "total_current_amount"}
        /\ DOMAIN Returned.metadata = {"format", "extraction_timestamp"}
        /\ Returned.metadata.format \in {"HTML", "PDF"}
        /\ \A i \in 1..Len(AccountsList) :
              /\ DOMAIN AccountsList[i] = DeclaredAccountKeys(Returned.metadata.format)
              /\ DOMAIN AccountsList[i].dpd_summary =
                    {"yearly_averages", "monthly_entries", "account_dpd_average"}
              /\ AccountsList[i].sanctioned_amount # None
              /\ AccountsList[i].current_balance # None

\* a page-text report of a document in which no basic field and no account
\* field matched, with an account in its list
C2_Witness ==
    /\ outcome = "returned"
    /\ Returned.metadata.format = "PDF"
    /\ file.content.facts = <<>>
    /\ Returned.basic_info.name = None
    /\ Len(AccountsList) = 1
    /\ AccountsList[1].member_name = None
    /\ AccountsList[1].overdue_amount = Some("0")

\* the lines of the grid that starts at the header at position h: up to
\* the line before the next account line or header
GridBlock(lines, h) ==
    LET inside == {j \in h..Len(lines) :
                      \A m \in (h + 1)..j : ~lines[m].acct /\ ~lines[m].hdr}
    IN  SubSeq(lines, h, Max(inside))

\* C4: in a page-text report every account of accounts_list has a
\* non-empty deterioration_reasoning, and the list holds, in order, exactly
\* the grid headers whose DPD history yields a non-empty reasoning (an
\* account's index is the rank of its header among the headers).
C4_PdfRetainedIffReasoning ==
    outcome = "returned" /\ Returned.metadata.format = "PDF" =>
        LET lines == PdfFilledLines(file.content.content)
            headers == SetToSortedSeq({i \in 1..Len(lines) : lines[i].hdr})
            history(n) == _extract_dpd_history_pdf(GridBlock(lines, headers[n]))
            deteriorating == {n \in 1..Len(headers) :
                                 _get_deterioration_reasoning(history(n)) # NoReasoning}
        IN  /\ \A i \in 1..Len(AccountsList) :
                  /\ AccountsList[i].deterioration_reasoning # NoReasoning
                  /\ AccountsList[i].account_index \in 1..Len(headers)
                  /\ AccountsList[i].dpd_history = history(AccountsList[i].account_index)
            /\ [i \in 1..Len(AccountsList) |-> AccountsList[i].account_index]
                   = SetToSortedSeq(deteriorating)

\* two grids, the first clean and the second deteriorating: the list holds
\* the second one only
C4_Witness ==
    /\ outcome = "returned"
    /\ Returned.metadata.format = "PDF"
    /\ PageText(file.content.content)
          = "DAYS PAST DUE/ASSET CLASSIFICATION\n000\nDAYS PAST DUE/ASSET CLASSIFICATION\n000 015"
    /\ Len(AccountsList) = 1
    /\ AccountsList[1].account_index = 2
    /\ AccountsList[1].deterioration_reasoning = Transition("000", "015", UNKNOWN)

\* C5: in a markup report accounts_list holds exactly one account for every
\* split block of at least 50 characters, in block order, blocks with an
\* empty DPD history and an empty reasoning included; a shorter block gives
\* no account, and no account is removed for its reasoning or its default
\* month.
C5_HtmlOneAccountPerBlock ==
    outcome = "returned" /\ Returned.metadata.format = "HTML" =>
        LET blocks == account_blocks(accounts_text(file.content.content))
            long == SetToSortedSeq({i \in 1..Len(blocks) : BlockLen(blocks[i]) >= 50})
        IN  /\ Len(AccountsList) = Len(long)
            /\ \A k \in 1..Len(long) :
                  /\ AccountsList[k].account_index = k
                  /\ AccountsList[k].original_html_index = Some(long[k])
                  /\ AccountsList[k].dpd_history =
                        _extract_dpd_history_improved(blocks[long[k]])

\* the empty text before the first delimiter, a block of 49 characters and
\* a block of exactly 50 characters without any DPD history: the list
\* holds the third one, with empty reasoning
C5_Witness ==
    /\ outcome = "returned"
    /\ Returned.metadata.format = "HTML"
    /\ PageText(file.content.content)
          = "MEMBER NAME\n" \o Filler(44) \o "\n2026\nMEMBER NAME\n" \o Filler(44) \o "\nCO-OP"
    /\ Len(AccountsList) = 1
    /\ AccountsList[1].original_html_index = Some(3)
    /\ AccountsList[1].dpd_history = <<>>
    /\ AccountsList[1].deterioration_reasoning = NoReasoning

\* the per-year default months of a stored history: for every year with a
\* non-clean token among the tokens read from its string, the position of
\* the first one
FirstDirty(dpd_string) ==
    LET toks == DPD_TOKEN_RE_findall(dpd_string)
    IN  {i \in 1..Len(toks) :
            ~IsClean(Upper(toks[i])) /\ \A j \in 1..(i - 1) : IsClean(Upper(toks[j]))}

RECURSIVE SumFirstDirty(_, _)
SumFirstDirty(history, years) ==
    IF years = {} THEN 0
    ELSE LET y == CHOOSE x \in years : TRUE
         IN  Max(FirstDirty(history[y])) + SumFirstDirty(history, years \ {y})

\* C8: in the report of either format an account's default_month_number is
\* the mean (to the one decimal the report keeps) of the per-year default
\* months over the years of its DPD history that have one, and is None
\* when no year of the account yields a default month.
C8_AccountDefaultMonthNumber ==
    outcome = "returned" =>
        \A i \in 1..Len(AccountsList) :
            LET history == AsMap(AccountsList[i].dpd_history)
                years == {y \in DOMAIN history : FirstDirty(history[y]) # {}}
                value == AccountsList[i].default_month_number
            IN  IF years = {} THEN value = None
                ELSE /\ value # None
                     /\ IsMean(value[1], SumFirstDirty(history, years), Cardinality(years))

\* value is sum / count to the nearest tenth, value and sum both in tenths
IsMeanOfTenths(value, sum, count) ==
    /\ 2 * (sum - value * count) <= count
    /\ 2 * (value * count - sum) <= count

\* the accounts of the list that have a yearly DPD average
WithYearlyAverage ==
    {i \in 1..Len(AccountsList) :
        AccountsList[i].dpd_summary.yearly_averages # <<>>}

RECURSIVE SumAccountAverages(_)
SumAccountAverages(I) ==
    IF I = {} THEN 0
    ELSE LET i == CHOOSE x \in I : TRUE
         IN  AccountsList[i].dpd_summary.account_dpd_average[1]
                 + SumAccountAverages(I \ {i})

\* C11: in the report of either format final_dpd_average is the mean (to
\* the one decimal the report keeps) of the per-account DPD averages over
\* exactly the accounts that have a yearly average, and None when no
\* account has one.
C11_FinalDpdAverage ==
    outcome = "returned" =>
        LET value == Returned.accounts.final_dpd_average
        IN  IF WithYearlyAverage = {} THEN value = None
            ELSE /\ value # None
                 /\ IsMeanOfTenths(value[1], SumAccountAverages(WithYearlyAverage),
                                   Cardinality(WithYearlyAverage))

\* C13: every enquiry of a returned report, in both formats, has an amount;
\* it is the text 0 when no amount was recovered and never None.
C13_EnquiryAmountNeverNull ==
    outcome = "returned" =>
        \A i \in 1..Len(Returned.enquiries.latest_month_enquiries) :
            Returned.enquiries.latest_month_enquiries[i].amount # None

(***************************************************************************)
(* Field-level extraction: documents that differ in the texts after the    *)
(* labels of the amounts, in the lines of the account summary and in what  *)
(* the score patterns capture.                                             *)
(***************************************************************************)
\* the texts after an amount label: digits with a thousands separator, a
\* separator alone, the glyph before digits, a text that is no amount, no
\* text at all
AmountTexts == {"7,0", ",", "₹7", "N7", ""}

\* the ones a line of a page text ends with
PdfAmountTexts == {"7,0", ",", ""}

\* what the score patterns capture in a text: nothing; a score in range,
\* out of range and negative by the score pattern; three digits by the
\* fallback pattern only; candidates of the page-text score patterns
ScoreFacts ==
    {<<>>,
     [score |-> "742"],
     [score |-> "15"],
     [score |-> "-1"],
     [fallback_score |-> "999"],
     [advanced |-> <<"250", "742">>, score |-> "15"],
     [advanced |-> <<"250">>, score |-> "15"]}

\* the labels of the amount lines of a block
HtmlAmountLabels == {"sanctioned_amount", "current_balance"}

\* the amount lines of a block
HtmlAmountLines == {HtmlAmountLine(field, val) : field \in HtmlAmountLabels, val \in AmountTexts}

\* the amount lines of a page text (current: a line CURRENT: val of the
\* account summary)
PdfAmountLines ==
    {PdfAmountLine(field, val) : field \in DOMAIN PdfAmountLabels, val \in PdfAmountTexts}

\* the lines of the account summary of a markup page
HtmlSummaryLines ==
    {HtmlLine("CONSUMER ACCOUNT SUMMARY"), HtmlLine("Overdue: 3"), HtmlLine("Overdue: ₹7,0"),
     HtmlLine("Current: ₹1,200"), HtmlLine("CONSUMER ACCOUNT DETAILS")}

\* what follows the amount lines of a block: nothing, or a year line and a
\* token line
BlockTails == {<<>>, <<Year2026, Token015>>}

MaxFieldLines == 2

MaxSummaryLines == 3

\* a file that holds the document
FieldFile(ext, facts, content) ==
    [exists |-> TRUE, ext |-> ext, kind |-> IF ext = ".pdf" THEN "PDF" ELSE "HTML",
     content |-> [facts |-> facts, enquiry_section |-> NoEnquirySection, content |-> content]]

InitFields ==
    /\ pc = "call"
    /\ now = StartDate
    /\ ProcIdle
    /\ RestIdle
    /\ \/ \E facts \in ScoreFacts : \E ext \in {".pdf", ".html"} :
             file = FieldFile(ext, facts, <<>>)
       \/ \E n \in 1..MaxFieldLines : \E lines \in [1..n -> HtmlAmountLines] :
          \E tail \in BlockTails :
             file = FieldFile(".html", <<>>, <<DelimiterLine, Text44>> \o lines \o tail)
       \/ \E n \in 0..MaxSummaryLines : \E lines \in [1..n -> HtmlSummaryLines] :
             file = FieldFile(".html", <<>>, lines)
       \/ \E n \in 0..MaxFieldLines : \E lines \in [1..n -> PdfAmountLines] :
             file = FieldFile(".pdf", <<>>, <<HeaderLine>> \o lines \o <<Row000015>>)
    /\ invoked = <<>>
    /\ outcome = ""
    /\ report = NoReport
    /\ dpd_history = <<>>
    /\ derived = NoDerived
    /\ accounts = <<>>
    /\ final_default = None
    /\ all_enquiries = <<>>
    /\ latest = NoLatest

SpecFields == InitFields /\ [][Next]_vars

(***************************************************************************)
(* Claims about field-level extraction (checked under SpecFields).         *)
(***************************************************************************)
\* the amount keys of an account of the format
AmountKeys(format) ==
    IF format = "PDF" THEN {"sanctioned_amount", "current_balance", "overdue_amount"}
    ELSE {"sanctioned_amount", "current_balance"}

\* the text group 1 of a match holds, the empty text without a match
GroupText(m, text) == IF m = None THEN "" ELSE GroupOf(m[1], text, 1)[1]

\* the text the pattern of the amount field matched for account i of the
\* report, the empty text when it matched nowhere (the metadata window of
\* a page text of the model is the whole text)
MatchedAmount(i, field) ==
    IF Returned.metadata.format = "HTML"
    THEN LET block == account_blocks(accounts_text(file.content.content))
                          [AccountsList[i].original_html_index[1]]
         IN  GroupText(HtmlFieldMatch(block, field), BlockText(block))
    ELSE LET block == PdfFilledLines(file.content.content)
         IN  GroupText(PdfFieldMatch(block, field), MetaText(block))

\* C12: in every account of a returned report each amount field is a
\* non-empty string of digits: the matched text without glyph, commas and
\* blanks when that is purely numeric, and "0" when the field was unmatched
\* or the cleaned text is not purely numeric; it is never None.
C12_AmountsAreDigitStrings ==
    outcome = "returned" =>
        \A i \in 1..Len(AccountsList) : \A field \in AmountKeys(Returned.metadata.format) :
            LET value == AccountsList[i][field]
                cleaned == Without(MatchedAmount(i, field), {"₹", ","} \cup Spaces)
            IN  /\ value # None
                /\ IsDigit(value[1])
                /\ value[1] = IF IsDigit(cleaned) THEN cleaned ELSE "0"

\* a page text with OVERDUE: , and then SANCTIONED: with the status row
\* 000 015 in the next line, and no balance: the amounts are 0, 000 and 0
C12_Witness ==
    /\ outcome = "returned"
    /\ Returned.metadata.format = "PDF"
    /\ PageText(file.content.content)
          = "DAYS PAST DUE/ASSET CLASSIFICATION\nOVERDUE: ,\nSANCTIONED: \n000 015"
    /\ Len(AccountsList) = 1
    /\ AccountsList[1].sanctioned_amount = Some("000")
    /\ AccountsList[1].overdue_amount = Some("0")
    /\ AccountsList[1].current_balance = Some("0")

\* C14: the score of basic_info of every returned report is None or an
\* integer in 300..900, in both formats, also when the first score rule
\* fails and a later one supplies the value.
C14_ScoreInRange ==
    outcome = "returned" =>
        LET score == Returned.basic_info.score
        IN  \/ score = None
            \/ /\ "number" \in DOMAIN score[1]
               /\ score[1].number \in 300..900

\* C15: field-level extraction never raises: once extract has found the
\* file and its extractor, the call ends with a returned report, whatever
\* the patterns match and capture.
C15_FieldExtractionNeverRaises ==
    pc = "done" /\ invoked # <<>> => outcome = "returned" /\ report # NoReport

(***************************************************************************)
(* Two invocations on one document while the calendar moves on.            *)
(***************************************************************************)
\* time passes: datetime.now() reports the first day of the next calendar
\* year
Tick ==
    /\ now[1] < CurrentYear + MaxYearsLater
    /\ now' = <<now[1] + 1, 1, 1>>
    /\ UNCHANGED <<restVars, procVars, pc, file, invoked, outcome, report, dpd_history, derived,
                   accounts, final_default, all_enquiries, latest>>

\* a second CIBILDataExtractor.extract(file_path) on the same file, after
\* the first returned its report; report keeps both, in call order
ExtractAgain == ExtractCall(FALSE)

NextClock == (\E first \in BOOLEAN : ExtractCall(first)) \/ Tick

\* the most lines of page text and the most blocks of markup of a document
\* that is read twice
MaxClockLines == 3

MaxClockBlocks == 1

InitClock == InitWith(FrontsWith(TwoNumberTexts), MaxClockLines, MaxClockBlocks)

SpecClock == InitClock /\ [][NextClock]_vars

(***************************************************************************)
(* Claims about two invocations (checked under SpecClock).                 *)
(***************************************************************************)
\* a report without the one field that is allowed to differ
WithoutTimestamp(r) == [r EXCEPT !.metadata.extraction_timestamp = 0]

\* C16: extraction is deterministic. Two invocations of extract on the same
\* document, run at any two times, return reports that are equal in every
\* field other than metadata.extraction_timestamp.
C16_Deterministic ==
    pc = "again" =>
        /\ outcome = "returned"
        /\ Len(report) = 2
        /\ WithoutTimestamp(report[1]) = WithoutTimestamp(report[2])

(***************************************************************************)
(* The orchestrator CIBILProcessor (src/cibil/services/processor.py).      *)
(* A date is the tuple <<year, month, day>>; a row of the table keeps      *)
(* name, pan_card, report_data_and_time and url; an object of              *)
(* processed-data/ is known by its file name, which the URL of the upload  *)
(* ends with and _s3_key_from_url reads back.                              *)
(***************************************************************************)
\* os.path.basename(path)
basename(path) ==
    Slice(path, Max({0} \cup {p \in 1..Len(path) : At(path, p) = "/"}) + 1, Len(path) + 1)

\* the dots of a file name that stand after a character that is no dot
SuffixDots(filename) ==
    {p \in 1..Len(filename) :
        At(filename, p) = "." /\ \E q \in 1..(p - 1) : At(filename, q) # "."}

\* os.path.splitext(filename) for a name without directory: the root and
\* the suffix from the last dot on, the empty suffix for a name whose dots
\* all lead it
splitext(filename) ==
    IF SuffixDots(filename) = {} THEN <<filename, "">>
    ELSE <<Slice(filename, 1, Max(SuffixDots(filename))),
           Slice(filename, Max(SuffixDots(filename)), Len(filename) + 1)>>

\* _get_file_extension: the lower-cased suffix
_get_file_extension(path) == Lower(splitext(basename(path))[2])

RECURSIVE Underscored(_, _, _)
\* re.sub(r"[-\s]+", "_", text) on the characters a..b of text
Underscored(text, a, b) ==
    IF a > b THEN ""
    ELSE IF a = b
         THEN IF At(text, a) \notin Spaces \cup {"-"} THEN At(text, a)
              ELSE IF At(text, a - 1) \in Spaces \cup {"-"} THEN "" ELSE "_"
    ELSE Underscored(text, a, (a + b) \div 2) \o Underscored(text, (a + b) \div 2 + 1, b)

\* re.sub(r"[^\w\s-]", "", text)
WordsSpacesDashes(text) ==
    Without(text, CharsOf(text) \ (WordChars \cup Spaces \cup {"-"}))

\* text.strip("_")
StripUnderscores(text) == Trimmed(text, Outside(text, {"_"}, 1))

\* the second re.sub of _sanitize_filename and its strip
UnderscoredAndStripped(text) == StripUnderscores(Underscored(text, 1, Len(text)))

\* text[:max_len]
Clipped(text, max_len) == IF Len(text) <= max_len THEN text ELSE SubSeq(text, 1, max_len)

\* _sanitize_filename(s) for a text s, max_len at its default
_sanitize_filename(s) ==
    Clipped(UnderscoredAndStripped(WordsSpacesDashes(Strip(s))), 100)

\* safe, or the sanitized stem of the file name when safe is empty
SafeOrStem(safe, original_filename) ==
    IF safe # "" THEN safe
    ELSE Upper(_sanitize_filename(splitext(basename(original_filename))[1]))

\* _build_s3_filename
_build_s3_filename(name, pan_card, original_filename) ==
    SafeOrStem(Upper(_sanitize_filename(IF pan_card # "" THEN name \o "_" \o pan_card
                                        ELSE name)),
               original_filename)
        \o _get_file_extension(original_filename)

\* DATE_FORMATS of _parse_report_date, compiled
DATE_FORMATS ==
    <<Formats.dmY_slash_HM, Formats.dmY_slash, Formats.dmY_dash, Formats.Ymd_dash,
      Formats.Ymd_slash, Formats.dmY_dot>>

SlashOrDash == In({"/", "-"})

\* DATE_PATTERNS of _parse_report_date
DATE_PATTERNS ==
    <<CaseSensitive(Group(1, Cat(<<Rep(Digit, 1, 2, FALSE), SlashOrDash,
                                   Rep(Digit, 1, 2, FALSE), SlashOrDash, Times(Digit, 4)>>))),
      CaseSensitive(Group(1, Cat(<<Times(Digit, 4), SlashOrDash, Rep(Digit, 1, 2, FALSE),
                                   SlashOrDash, Rep(Digit, 1, 2, FALSE)>>)))>>

\* text.replace("-", "/")
Slashed(text) == MapChars(text, ("-" :> "/"), 1, Len(text))

\* datetime.strptime(match.group(1).replace("-", "/"), "%d/%m/%Y") for a
\* match of a pattern, None without a match or where strptime raises
DatePartOf(match, cleaned) ==
    IF match = <<>> THEN None
    ELSE strptime(Slashed(GroupOf(match[1], cleaned, 1)[1]), Formats.dmY_slash)

RECURSIVE FirstDatePart(_, _)
\* the loop over DATE_PATTERNS from the k-th on
FirstDatePart(cleaned, k) ==
    IF k > Len(DATE_PATTERNS) THEN None
    ELSE IF DatePartOf(Search(DATE_PATTERNS[k], cleaned), cleaned) # None
    THEN DatePartOf(Search(DATE_PATTERNS[k], cleaned), cleaned)
    ELSE FirstDatePart(cleaned, k + 1)

\* the date the two loops of _parse_report_date read from cleaned, None
\* when both run to their end
DateRead(cleaned) ==
    OrElse(FirstParsed(cleaned, DATE_FORMATS, 1), FirstDatePart(cleaned, 1))

\* the date read, or datetime.now() at midnight
OrToday(read) == IF read = None THEN now ELSE read[1]

\* _parse_report_date(report_date_str) for None or a text: parsed_dt, the
\* day parsed_str spells as well
_parse_report_date(report_date_str) ==
    IF report_date_str = None THEN now
    ELSE IF Strip(report_date_str[1]) = "" THEN now
    ELSE OrToday(DateRead(Strip(report_date_str[1])))

\* the rows WHERE name = %s AND pan_card = %s
RowsOf(rows, name, pan) ==
    {i \in 1..Len(rows) : rows[i].name = name /\ rows[i].pan_card = pan}

\* _get_latest_record: the rows ORDER BY report_data_and_time DESC LIMIT 1
\* may return; none when no row matches
_get_latest_record(rows, name, pan) ==
    {i \in RowsOf(rows, name, pan) :
        \A j \in RowsOf(rows, name, pan) :
            ~Before(rows[i].report_data_and_time, rows[j].report_data_and_time)}

\* _delete_all_records
_delete_all_records(rows, name, pan) ==
    SelectSeq(rows, LAMBDA r : ~(r.name = name /\ r.pan_card = pan))

\* a variant that replaces when the incoming date is not older
Mutant_should_process_file(existing, incoming) ==
    IF existing = None THEN "INSERT_NEW"
    ELSE IF ~Before(incoming, existing[1].report_data_and_time) THEN "REPLACE_OLD"
    ELSE "SKIP"

\* _should_process_file: existing is None or the latest row
_should_process_file(existing, incoming) ==
    IF existing = None THEN "INSERT_NEW"
    ELSE IF Before(existing[1].report_data_and_time, incoming) THEN "REPLACE_OLD"
    ELSE "SKIP"

\* _build_db_record, the columns the model keeps
_build_db_record(name, pan, s3_url, parsed_date) ==
    [name |-> name, pan_card |-> pan, report_data_and_time |-> parsed_date, url |-> s3_url]

\* the collaborator calls that may raise in process_single_file
FailurePoints ==
    {"none", "download", "connect", "select", "delete_object", "delete_all",
     "upload", "insert", "commit"}

Ok(op) == [op |-> op, ok |-> TRUE]

Failed(op) == [op |-> op, ok |-> FALSE]

\* the except and finally clauses once a connection exists
Rollback == <<Ok("rollback"), Ok("close")>>

\* list(set(...)) of the two lists of basic_info in the order one call
\* builds them; the caller keeps neither list
Listed(lines) == CHOOSE listed \in ListingsOf(lines) : TRUE

\* extractor.extract(temp_path) on the downloaded file; the caller reads
\* name, pan_card and report_date of basic_info, which no clock read
\* reaches
ExtractorExtract(f) ==
    IF SelectExtractor(f).error # "" THEN Raises(SelectExtractor(f).error)
    ELSE RunExtractor(_extractors[SelectExtractor(f).key], f.content,
                      Listed(f.content.content), <<now[1], now[1], now[1]>>)

\* (basic_info.get(key) or "").strip()
StrippedOrEmpty(value) == IF value = None THEN "" ELSE Strip(value[1])

\* a call that ends without touching table or bucket
Ends(res, log) ==
    [result |-> res, calls |-> log, rows |-> table_cibil, objects |-> processed_data]

\* remove a key from the bucket
WithoutObject(objects, key) == [k \in DOMAIN objects \ {key} |-> objects[k]]

\* the part of process_single_file after _should_process_file returned
\* INSERT_NEW or REPLACE_OLD: delete the old object and the old rows when
\* replacing, upload, insert, commit
Persist(f, res, log, decision, existing, name, pan, parsed, failing) ==
    LET replacing == decision = "REPLACE_OLD" /\ existing # None
        log1 == IF replacing
                THEN log \o <<IF failing = "delete_object" THEN Failed("delete_object")
                                                            ELSE Ok("delete_object")>>
                ELSE log
        objects1 == IF replacing /\ failing # "delete_object"
                    THEN WithoutObject(processed_data, existing[1].url)
                    ELSE processed_data
        rows1 == IF replacing THEN _delete_all_records(table_cibil, name, pan) ELSE table_cibil
        s3_filename == _build_s3_filename(name, pan, basename(f.name))
        objects2 == (s3_filename :> parsed) @@ objects1
        record == _build_db_record(name, pan, s3_filename, parsed)
        error(op, objects, s3_url) ==
            [result |-> [res EXCEPT !.status = Some("ERROR"), !.error_message = Some(op),
                                    !.s3_url = s3_url],
             calls |-> log1 \o Rollback, rows |-> table_cibil, objects |-> objects]
    IN  IF replacing /\ failing = "delete_all"
        THEN [error("delete_all", objects1, None) EXCEPT
                 !.calls = log1 \o <<Failed("delete_all")>> \o Rollback]
        ELSE LET log2 == IF replacing THEN log1 \o <<Ok("delete_all")>> ELSE log1
             IN  IF failing = "upload"
                 THEN [error("upload", objects1, None) EXCEPT
                          !.calls = log2 \o <<Failed("upload")>> \o Rollback]
                 ELSE IF failing = "insert"
                 THEN [error("insert", objects2, Some(s3_filename)) EXCEPT
                          !.calls = log2 \o <<Ok("upload"), Failed("insert")>> \o Rollback]
                 ELSE IF failing = "commit"
                 THEN [error("commit", objects2, Some(s3_filename)) EXCEPT
                          !.calls = log2 \o <<Ok("upload"), Ok("insert"), Failed("commit")>>
                                         \o Rollback]
                 ELSE [result |->
                          [res EXCEPT !.s3_url = Some(s3_filename),
                                      !.status = Some(IF decision = "REPLACE_OLD"
                                                      THEN "REPLACED" ELSE "INSERTED")],
                       calls |-> log2 \o <<Ok("upload"), Ok("insert"), Ok("commit"), Ok("close")>>,
                       rows |-> Append(rows1, record),
                       objects |-> objects2]

\* a variant that gives up only when both name and PAN are missing
MutantMissingNameOrPan(name, pan) == name = "" /\ pan = ""

\* not name or not pan
MissingNameOrPan(name, pan) == name = "" \/ pan = ""

\* a call that ends with status ERROR and the message, table and bucket
\* untouched
EndsInError(res, message, log) ==
    Ends([res EXCEPT !.status = Some("ERROR"), !.error_message = Some(message)], log)

\* process_single_file after _should_process_file looked at the row
\* existing (None: no row)
Decided(f, failing, res1, log2, name, pan, parsed, existing) ==
    LET decision == _should_process_file(existing, parsed)
        res2 == [res1 EXCEPT !.reason = Some(decision)]
    IN  IF decision = "SKIP"
        THEN Ends([res2 EXCEPT !.status = Some("SKIPPED")], log2 \o <<Ok("close")>>)
        ELSE Persist(f, res2, log2, decision, existing, name, pan, parsed, failing)

\* process_single_file once name and PAN are known: connect, read the
\* latest row (one way to end for every row _get_latest_record may return)
Identified(f, failing, res1, log1, name, pan, parsed) ==
    IF failing = "connect"
    THEN {EndsInError(res1, "connect", log1 \o <<Failed("connect")>>)}
    ELSE IF failing = "select"
    THEN {EndsInError(res1, "select", log1 \o <<Ok("connect"), Failed("select")>> \o Rollback)}
    ELSE IF _get_latest_record(table_cibil, name, pan) = {}
    THEN {Decided(f, failing, res1, log1 \o <<Ok("connect"), Ok("select")>>,
                  name, pan, parsed, None)}
    ELSE {Decided(f, failing, res1, log1 \o <<Ok("connect"), Ok("select")>>,
                  name, pan, parsed, Some(table_cibil[i])) :
             i \in _get_latest_record(table_cibil, name, pan)}

\* process_single_file once name and PAN are read from basic_info: the
\* test for a missing one, the report date
Named(f, failing, res0, name, pan, raw_report_date) ==
    IF MissingNameOrPan(name, pan)
    THEN {EndsInError([res0 EXCEPT !.name = Some(name), !.pan = Some(pan)],
                      "Missing name or PAN in extracted data",
                      <<Ok("download"), Ok("extract")>>)}
    ELSE Identified(f, failing, [res0 EXCEPT !.name = Some(name), !.pan = Some(pan)],
                    <<Ok("download"), Ok("extract")>>, name, pan,
                    _parse_report_date(raw_report_date))

\* process_single_file once the extractor returned basic_info
Extracted(f, failing, res0, basic_info) ==
    Named(f, failing, res0, Lower(StrippedOrEmpty(basic_info.name)),
          Upper(StrippedOrEmpty(basic_info.pan_card)), basic_info.report_date)

\* process_single_file once the file is downloaded and the extractor was
\* called
Downloaded(f, failing, res0, cibil_data) ==
    IF cibil_data.raised # ""
    THEN {EndsInError(res0, cibil_data.raised, <<Ok("download"), Failed("extract")>>)}
    ELSE Extracted(f, failing, res0, cibil_data.value.basic_info)

\* the ways process_single_file(s3_key) can end when no other call runs
\* between its first and its last statement, for the raw object that holds
\* file f when the collaborator call named failing raises
process_single_file(f, failing) ==
    IF failing = "download"
    THEN {EndsInError([NoResult EXCEPT !.original_file = Some(f.name)], "download",
                      <<Failed("download")>>)}
    ELSE Downloaded(f, failing, [NoResult EXCEPT !.original_file = Some(f.name)],
                    ExtractorExtract(f))

\* the prefix of the keys of the uploaded files
raw_prefix == "raw-data/"

\* self.raw_prefix + filename
RawKey(filename) == raw_prefix \o filename

\* the file download_file writes for the raw object s3_key: the key, the
\* suffix of the temporary file and the document
ProcFile(s3_key, facts, content) ==
    [exists |-> TRUE, name |-> s3_key, ext |-> splitext(basename(s3_key))[2],
     kind |-> (IF Lower(splitext(basename(s3_key))[2]) = ".pdf" THEN "PDF" ELSE "HTML"),
     content |-> Document([facts |-> facts, enquiry_section |-> NoEnquirySection], content)]

\* what the patterns capture in a report: None when a pattern matches
\* nowhere
ReportFacts(name, pan_card, report_date) ==
    [name |-> name, pan_card |-> pan_card, report_date |-> report_date]

\* the page text of a report whose second overdue amount is a comma:
\* extract_overdue_summary raises ValueError on it
TwoOverdueLines == <<PdfLine("OVERDUE: 7"), PdfLine("OVERDUE: ,")>>

\* the raw objects, each under a name the upload form lets pass: reports
\* without name and without PAN; reports of one person of one day (the
\* second with another spelling of name and PAN and a time of day), of a
\* later day, without date and with a day no calendar has; a report of
\* another person; the later report as a markup file; a report the
\* extractor raises on
ProcFiles ==
    {ProcFile("raw-data/noname.pdf",
              ReportFacts(None, Some("ABCDE1234F"), Some("24-12-2025")), <<>>),
     ProcFile("raw-data/nopan.pdf",
              ReportFacts(Some("RAVI KUMAR"), None, Some("24-12-2025")), <<>>),
     ProcFile("raw-data/ravi_dec.pdf",
              ReportFacts(Some("RAVI KUMAR"), Some("ABCDE1234F"), Some("24-12-2025")), <<>>),
     ProcFile("raw-data/ravi_dec2.PDF",
              ReportFacts(Some("Ravi Kumar "), Some(" abcde1234f"), Some("24/12/2025, 10:30")),
              <<>>),
     ProcFile("raw-data/ravi_jan.pdf",
              ReportFacts(Some("RAVI KUMAR"), Some("ABCDE1234F"), Some("05-01-2026")), <<>>),
     ProcFile("raw-data/ravi_nodate.pdf",
              ReportFacts(Some("RAVI KUMAR"), Some("ABCDE1234F"), None), <<>>),
     ProcFile("raw-data/ravi_feb31.pdf",
              ReportFacts(Some("RAVI KUMAR"), Some("ABCDE1234F"), Some("31-02-2026")), <<>>),
     ProcFile("raw-data/asha.pdf",
              ReportFacts(Some("ASHA RAO"), Some("ABCDE1234F"), Some("24-12-2025")), <<>>),
     ProcFile("raw-data/ravi_jan.html",
              ReportFacts(Some("RAVI KUMAR"), Some("ABCDE1234F"), Some("05-01-2026")), <<>>),
     ProcFile("raw-data/ravi_two.pdf",
              ReportFacts(Some("RAVI KUMAR"), Some("ABCDE1234F"), Some("05-01-2026")),
              TwoOverdueLines)}

\* two rows of one name+PAN and their objects, as two calls that ran at the
\* same time and both found no row leave them
TwoRows ==
    <<_build_db_record("ravi kumar", "ABCDE1234F",
                       _build_s3_filename("ravi kumar", "ABCDE1234F", "ravi_nov.pdf"),
                       <<2025, 11, 30>>),
      _build_db_record("ravi kumar", "ABCDE1234F",
                       _build_s3_filename("ravi kumar", "ABCDE1234F", "ravi_dec.html"),
                       <<2025, 12, 24>>)>>

(***************************************************************************)
(* process_single_file statement by statement. processor is one object of  *)
(* the module, every request reaches it through dump_files, and the call   *)
(* holds no lock: while one call waits on the object store or on the       *)
(* database another call can run. workers keeps the calls in flight, each  *)
(* with its own connection and transaction; table_cibil holds the          *)
(* committed rows, and a call keeps what its transaction deleted and       *)
(* inserted until it commits. The statements run as PostgreSQL runs them   *)
(* at its default isolation level READ COMMITTED: a statement sees the     *)
(* rows committed before it started, and a DELETE waits for a transaction  *)
(* that deleted one of its rows. The repository has no schema of           *)
(* public.table_cibil: unique_key tells whether the table has a unique     *)
(* constraint on (name, pan_card).                                         *)
(***************************************************************************)
Workers == {1, 2}

Other(w) == 3 - w

\* the rows as a set
RowSet(rows) == {rows[i] : i \in 1..Len(rows)}

\* no call
NoCall ==
    [at |-> "idle", file |-> NoFile, failing |-> "none", name |-> "", pan |-> "",
     parsed |-> <<>>, stored |-> {}, existing |-> None, decision |-> "", snapshot |-> {},
     deleted |-> {}, inserted |-> <<>>, removed |-> {}, added |-> <<>>, left |-> {},
     res |-> NoResult, log |-> <<>>]

\* a call of process_single_file on the raw object that holds file f, in
\* which the collaborator call named failing raises: about to download.
\* stored keeps the rows of its name+PAN its SELECT ran over, removed and
\* added the rows its commit took from and put into the table, left the
\* rows of stored the table holds after its commit
CallOn(f, failing) ==
    [NoCall EXCEPT !.at = "download", !.file = f, !.failing = failing,
                   !.res = [NoResult EXCEPT !.original_file = Some(f.name)]]

\* the committed rows of the name+PAN of call c
KeyRows(c) == {r \in RowSet(table_cibil) : r.name = c.name /\ r.pan_card = c.pan}

\* the except and finally clauses of a call: rollback with a connection,
\* status ERROR with the message, close
Raised(c, message, log) ==
    [c EXCEPT !.at = "done", !.deleted = {}, !.inserted = <<>>,
              !.res = [c.res EXCEPT !.status = Some("ERROR"), !.error_message = Some(message)],
              !.log = log]

\* the call after name and PAN are read from basic_info
CallNamed(c, name, pan, raw_report_date) ==
    IF MissingNameOrPan(name, pan)
    THEN [c EXCEPT !.at = "done", !.name = name, !.pan = pan,
                   !.res = [c.res EXCEPT !.name = Some(name), !.pan = Some(pan),
                                         !.status = Some("ERROR"),
                                         !.error_message =
                                             Some("Missing name or PAN in extracted data")],
                   !.log = <<Ok("download"), Ok("extract")>>]
    ELSE [c EXCEPT !.at = "connect", !.name = name, !.pan = pan,
                   !.parsed = _parse_report_date(raw_report_date),
                   !.res = [c.res EXCEPT !.name = Some(name), !.pan = Some(pan)],
                   !.log = <<Ok("download"), Ok("extract")>>]

\* the call after extractor.extract returned or raised
CallExtracted(c, cibil_data) ==
    IF cibil_data.raised # ""
    THEN Raised(c, cibil_data.raised, <<Ok("download"), Failed("extract")>>)
    ELSE CallNamed(c, Lower(StrippedOrEmpty(cibil_data.value.basic_info.name)),
                   Upper(StrippedOrEmpty(cibil_data.value.basic_info.pan_card)),
                   cibil_data.value.basic_info.report_date)

\* what a step of a call leaves alone besides table, bucket and workers
CallUnchanged ==
    UNCHANGED <<scan, dump, result, calls, pc, now, file, invoked, outcome, report,
                dpd_history, derived, accounts, final_default, all_enquiries, latest>>

\* download_file, then the statements up to _db_connect, which wait on
\* nothing: extract, name and PAN, the test for a missing one, the report
\* date
WorkerDownload(w) ==
    /\ workers.call[w].at = "download"
    /\ workers' = [workers EXCEPT !.call[w] =
           IF workers.call[w].failing = "download"
           THEN Raised(workers.call[w], "download", <<Failed("download")>>)
           ELSE CallExtracted(workers.call[w], ExtractorExtract(workers.call[w].file))]
    /\ UNCHANGED <<table_cibil, processed_data>>
    /\ CallUnchanged

\* _db_connect
WorkerConnect(w) ==
    LET c == workers.call[w]
    IN  /\ c.at = "connect"
        /\ workers' = [workers EXCEPT !.call[w] =
               IF c.failing = "connect"
               THEN Raised(c, "connect", c.log \o <<Failed("connect")>>)
               ELSE [c EXCEPT !.at = "select", !.log = c.log \o <<Ok("connect")>>]]
        /\ UNCHANGED <<table_cibil, processed_data>>
        /\ CallUnchanged

\* the call after the SELECT of _get_latest_record returned existing (None:
\* no row) and _should_process_file decided; SKIP returns SKIPPED and
\* closes the connection
CallDecided(c, existing, decision, stored) ==
    [c EXCEPT !.existing = existing, !.decision = decision, !.stored = stored,
              !.at = IF decision = "SKIP" THEN "done"
                     ELSE IF decision = "REPLACE_OLD" THEN "delete_object"
                     ELSE "upload",
              !.res = [c.res EXCEPT !.reason = Some(decision),
                                    !.status = IF decision = "SKIP" THEN Some("SKIPPED")
                                               ELSE None],
              !.log = c.log \o (IF decision = "SKIP" THEN <<Ok("select"), Ok("close")>>
                                ELSE <<Ok("select")>>)]

\* _should_process_file: the SELECT on the committed rows and the decision
WorkerSelect(w) ==
    LET c == workers.call[w]
        latest_rows == _get_latest_record(table_cibil, c.name, c.pan)
    IN  /\ c.at = "select"
        /\ IF c.failing = "select"
           THEN workers' = [workers EXCEPT !.call[w] =
                    Raised(c, "select", c.log \o <<Failed("select")>> \o Rollback)]
           ELSE \E existing \in (IF latest_rows = {} THEN {None}
                                 ELSE {Some(table_cibil[i]) : i \in latest_rows}) :
                   workers' = [workers EXCEPT !.call[w] =
                       CallDecided(c, existing, _should_process_file(existing, c.parsed),
                                   KeyRows(c))]
        /\ UNCHANGED <<table_cibil, processed_data>>
        /\ CallUnchanged

\* _delete_s3_file(existing.get("url")): an exception of delete_object is
\* logged and passed over
WorkerDeleteObject(w) ==
    LET c == workers.call[w]
    IN  /\ c.at = "delete_object"
        /\ IF c.failing = "delete_object"
           THEN /\ processed_data' = processed_data
                /\ workers' = [workers EXCEPT !.call[w].at = "delete_begin",
                                   !.call[w].log = c.log \o <<Failed("delete_object")>>]
           ELSE /\ processed_data' = WithoutObject(processed_data, c.existing[1].url)
                /\ workers' = [workers EXCEPT !.call[w].at = "delete_begin",
                                   !.call[w].log = c.log \o <<Ok("delete_object")>>]
        /\ UNCHANGED table_cibil
        /\ CallUnchanged

\* _delete_all_records: the DELETE starts and finds the committed rows of
\* the name+PAN
WorkerDeleteBegin(w) ==
    LET c == workers.call[w]
    IN  /\ c.at = "delete_begin"
        /\ workers' = [workers EXCEPT !.call[w] =
               IF c.failing = "delete_all"
               THEN Raised(c, "delete_all", c.log \o <<Failed("delete_all")>> \o Rollback)
               ELSE [c EXCEPT !.at = "delete_end", !.snapshot = KeyRows(c)]]
        /\ UNCHANGED <<table_cibil, processed_data>>
        /\ CallUnchanged

\* _delete_all_records: the DELETE ends once no other transaction holds a
\* row it found; it deletes the rows it found that are still there
WorkerDeleteEnd(w) ==
    LET c == workers.call[w]
    IN  /\ c.at = "delete_end"
        /\ workers.call[Other(w)].deleted \cap c.snapshot = {}
        /\ workers' = [workers EXCEPT !.call[w].at = "upload",
                                      !.call[w].deleted = c.snapshot \cap RowSet(table_cibil),
                                      !.call[w].log = c.log \o <<Ok("delete_all")>>]
        /\ UNCHANGED <<table_cibil, processed_data>>
        /\ CallUnchanged

\* _upload_processed_file on the name _build_s3_filename gives
WorkerUpload(w) ==
    LET c == workers.call[w]
        s3_filename == _build_s3_filename(c.name, c.pan, basename(c.file.name))
    IN  /\ c.at = "upload"
        /\ IF c.failing = "upload"
           THEN /\ processed_data' = processed_data
                /\ workers' = [workers EXCEPT !.call[w] =
                       Raised(c, "upload", c.log \o <<Failed("upload")>> \o Rollback)]
           ELSE /\ processed_data' = (s3_filename :> c.parsed) @@ processed_data
                /\ workers' = [workers EXCEPT !.call[w].at = "insert",
                                   !.call[w].res.s3_url = Some(s3_filename),
                                   !.call[w].log = c.log \o <<Ok("upload")>>]
        /\ UNCHANGED table_cibil
        /\ CallUnchanged

\* _insert_record. With a unique constraint the INSERT waits for another
\* transaction that inserted or deleted a row of the name+PAN, and raises
\* when a committed row of the name+PAN is left
WorkerInsert(w) ==
    LET c == workers.call[w]
        other == workers.call[Other(w)]
        record == _build_db_record(c.name, c.pan,
                                   _build_s3_filename(c.name, c.pan, basename(c.file.name)),
                                   c.parsed)
        same_key(r) == r.name = c.name /\ r.pan_card = c.pan
    IN  /\ c.at = "insert"
        /\ (workers.unique_key /\ c.failing # "insert") =>
              /\ \A k \in 1..Len(other.inserted) : ~same_key(other.inserted[k])
              /\ other.deleted \cap KeyRows(c) = {}
        /\ workers' = [workers EXCEPT !.call[w] =
               IF c.failing = "insert" \/ (workers.unique_key /\ KeyRows(c) \ c.deleted # {})
               THEN Raised(c, "insert", c.log \o <<Failed("insert")>> \o Rollback)
               ELSE [c EXCEPT !.at = "commit", !.inserted = <<record>>,
                              !.log = c.log \o <<Ok("insert")>>]]
        /\ UNCHANGED <<table_cibil, processed_data>>
        /\ CallUnchanged

\* the rows after the transaction of call c is committed
Committed(rows, c) == SelectSeq(rows, LAMBDA r : r \notin c.deleted) \o c.inserted

\* conn.commit(), the status and conn.close()
WorkerCommit(w) ==
    LET c == workers.call[w]
    IN  /\ c.at = "commit"
        /\ IF c.failing = "commit"
           THEN /\ table_cibil' = table_cibil
                /\ workers' = [workers EXCEPT !.call[w] =
                       Raised(c, "commit", c.log \o <<Failed("commit")>> \o Rollback)]
           ELSE /\ table_cibil' = Committed(table_cibil, c)
                /\ workers' = [workers EXCEPT !.call[w] =
                       [c EXCEPT !.at = "done", !.deleted = {}, !.inserted = <<>>,
                                 !.removed = c.deleted \cap RowSet(table_cibil),
                                 !.added = c.inserted,
                                 !.left = (c.stored \cap RowSet(table_cibil)) \ c.deleted,
                                 !.res.status = Some(IF c.decision = "REPLACE_OLD"
                                                     THEN "REPLACED" ELSE "INSERTED"),
                                 !.log = c.log \o <<Ok("commit"), Ok("close")>>]]
        /\ UNCHANGED processed_data
        /\ CallUnchanged

\* the days datetime.now() reports when the calls start
StartDates == {<<CurrentYear, 3, 1>>, StartDate}

\* the reports of a second call in flight: one person, three days (the
\* report without a date has the day of the call)
ConcurrentFiles ==
    {ProcFile("raw-data/ravi_dec.pdf",
              ReportFacts(Some("RAVI KUMAR"), Some("ABCDE1234F"), Some("24-12-2025")), <<>>),
     ProcFile("raw-data/ravi_jan.pdf",
              ReportFacts(Some("RAVI KUMAR"), Some("ABCDE1234F"), Some("05-01-2026")), <<>>),
     ProcFile("raw-data/ravi_nodate.html",
              ReportFacts(Some("Ravi Kumar"), Some("abcde1234f"), None), <<>>)}

\* a call on any raw object, with any collaborator failure, while no other
\* call or a call on a report of one person is in flight; the table is
\* empty or holds two rows of one name+PAN
InitProc ==
    /\ pc = "serving"
    /\ now \in StartDates
    /\ \/ /\ table_cibil = <<>>
          /\ processed_data = <<>>
          /\ \E unique_key \in BOOLEAN : \E f \in ProcFiles : \E failing \in FailurePoints :
             \E second \in {NoCall} \cup {CallOn(g, "none") : g \in ConcurrentFiles} :
                workers = [unique_key |-> unique_key,
                           call |-> <<CallOn(f, failing), second>>]
       \/ /\ table_cibil = TwoRows
          /\ processed_data = (TwoRows[1].url :> TwoRows[1].report_data_and_time)
                              @@ (TwoRows[2].url :> TwoRows[2].report_data_and_time)
          /\ \E f \in ProcFiles : \E failing \in FailurePoints :
             \E second \in {NoCall} \cup {CallOn(g, "none") : g \in ConcurrentFiles} :
                workers = [unique_key |-> FALSE, call |-> <<CallOn(f, failing), second>>]
    /\ result = NoResult
    /\ calls = <<>>
    /\ scan = <<>>
    /\ dump = <<>>
    /\ file = NoFile
    /\ invoked = <<>>
    /\ outcome = ""
    /\ report = NoReport
    /\ dpd_history = <<>>
    /\ derived = NoDerived
    /\ accounts = <<>>
    /\ final_default = None
    /\ all_enquiries = <<>>
    /\ latest = NoLatest

\* one statement of one of the calls in flight
ProcessSingleFile ==
    \E w \in Workers :
        \/ WorkerDownload(w)
        \/ WorkerConnect(w)
        \/ WorkerSelect(w)
        \/ WorkerDeleteObject(w)
        \/ WorkerDeleteBegin(w)
        \/ WorkerDeleteEnd(w)
        \/ WorkerUpload(w)
        \/ WorkerInsert(w)
        \/ WorkerCommit(w)

NextProc == ProcessSingleFile

SpecProc == InitProc /\ [][NextProc]_vars

(***************************************************************************)
(* Claims about process_single_file (checked under SpecProc). They speak   *)
(* of every call on every raw file, with every collaborator failure, that  *)
(* runs alone or while another call is in flight, and of what the call     *)
(* itself read, deleted and inserted.                                      *)
(***************************************************************************)
\* name and PAN of the report in raw file f as the rows keep them, "" when
\* the report has none
IncomingName(f) == Lower(StrippedOrEmpty(f.content.facts.name))

IncomingPan(f) == Upper(StrippedOrEmpty(f.content.facts.pan_card))

\* the day of the report in raw file f
IncomingDate(f) == _parse_report_date(f.content.facts.report_date)

\* the extractor returns a report for f
Extractable(f) == Lower(f.ext) \in DOMAIN _extractors

\* no collaborator call raised out of the call (a failed deletion of the
\* old object is logged and passed over)
NoFailure(log) == \A i \in 1..Len(log) : log[i].ok \/ log[i].op = "delete_object"

Made(log, ops) == \E i \in 1..Len(log) : log[i].op \in ops

\* the rows of the other names and PANs, in order
OtherRows(rows, name, pan) == SelectSeq(rows, LAMBDA r : ~(r.name = name /\ r.pan_card = pan))

\* the call has returned after its decision and no collaborator call raised
\* out of it
ReturnedDecision(c) == c.at = "done" /\ c.decision # "" /\ NoFailure(c.log)

\* the commit of the call put one row into the table: the row of the name,
\* the PAN and the day of its report
OneRowAdded(c) ==
    /\ Len(c.added) = 1
    /\ c.added[1].name = IncomingName(c.file)
    /\ c.added[1].pan_card = IncomingPan(c.file)
    /\ c.added[1].report_data_and_time = IncomingDate(c.file)

\* C17: process_single_file decides by comparing the day of the extracted
\* report with the latest stored day of the same name+PAN. With no stored
\* row it inserts one row and returns INSERTED; with a strictly newer
\* incoming day it deletes every stored row of the name+PAN, inserts the
\* new one and returns REPLACED; with an equal or older incoming day it
\* returns SKIPPED and deletes no row, inserts no row, deletes no object
\* and uploads nothing. The stored rows are the rows of the name+PAN the
\* SELECT of the call ran over.
C17_DecisionByReportDate ==
    \A w \in Workers :
        (pc = "serving" /\ ReturnedDecision(workers.call[w])) =>
            LET c == workers.call[w]
            IN  IF c.stored = {}
                THEN /\ c.res.status = Some("INSERTED")
                     /\ OneRowAdded(c)
                     /\ c.removed = {}
                ELSE IF \A r \in c.stored :
                            Before(r.report_data_and_time, IncomingDate(c.file))
                THEN /\ c.res.status = Some("REPLACED")
                     /\ OneRowAdded(c)
                     /\ c.left = {}
                ELSE /\ c.res.status = Some("SKIPPED")
                     /\ c.added = <<>>
                     /\ c.removed = {}
                     /\ ~Made(c.log, {"delete_object", "delete_all", "upload", "insert"})

\* a call replaced the two rows of a name+PAN by the row of a newer report
C17_Witness ==
    /\ pc = "serving"
    /\ \E w \in Workers :
          /\ workers.call[w].at = "done"
          /\ workers.call[w].res.status = Some("REPLACED")
          /\ workers.call[w].res.name = Some("ravi kumar")
          /\ Made(workers.call[w].log, {"delete_all"})
          /\ NoFailure(workers.call[w].log)
          /\ Cardinality(workers.call[w].removed) = 2
          /\ Cardinality(RowsOf(table_cibil, "ravi kumar", "ABCDE1234F")) = 1

\* the extractor returned a report to the call, and the report has an empty
\* name or an empty PAN
ReportWithoutIdentity(c) ==
    /\ Ok("extract") \in RowSet(c.log)
    /\ IncomingName(c.file) = "" \/ IncomingPan(c.file) = ""

\* C18: when the report the extractor returned has an empty name or an
\* empty PAN, process_single_file returns status ERROR with a message and
\* does so before any persistence step: it opens no database connection,
\* deletes and inserts no row, and uploads nothing to and deletes nothing
\* from processed-data.
C18_MissingIdentityIsErrorValue ==
    \A w \in Workers :
        (pc = "serving" /\ ReportWithoutIdentity(workers.call[w])) =>
            /\ workers.call[w].at = "done"
            /\ workers.call[w].res.status = Some("ERROR")
            /\ workers.call[w].res.error_message # None
            /\ workers.call[w].added = <<>>
            /\ workers.call[w].removed = {}
            /\ ~Made(workers.call[w].log,
                     {"connect", "select", "delete_all", "insert", "commit", "rollback",
                      "delete_object", "upload"})

\* a call on a report without name ended in ERROR while rows were stored
C18_Witness ==
    /\ pc = "serving"
    /\ workers.call[1].res.status = Some("ERROR")
    /\ workers.call[1].res.error_message = Some("Missing name or PAN in extracted data")
    /\ workers.call[1].res.name = Some("")
    /\ workers.call[1].res.pan = Some("ABCDE1234F")
    /\ workers.call[1].log = <<Ok("download"), Ok("extract")>>
    /\ table_cibil # <<>>

(***************************************************************************)
(* Claims about the DPD histories of a call of extract (checked under      *)
(* Spec).                                                                  *)
(***************************************************************************)
\* the positions of the grid headers of the lines of a page text, in order
HeaderPositions(lines) == SetToSortedSeq({i \in 1..Len(lines) : lines[i].hdr})

\* the block of the n-th grid header: the header line and the lines up to
\* the next header or account line
PdfBlockOf(lines, n) ==
    LET i == HeaderPositions(lines)[n]
    IN  SubSeq(lines, i, AfterBlock(lines, i) - 1)

\* the tokens and the month stamps found in a block, in text order
TokensFound(block) == Concat([i \in 1..Len(block) |-> block[i].toks])

MonthStamps(block) == Concat([i \in 1..Len(block) |-> block[i].months])

\* the number of tokens a history stores over all its years
TotalTokens(history) ==
    LET years == SetToSortedSeq(DOMAIN history)
    IN  SumSeq([i \in 1..Len(years) |-> Len(history[years[i]])])

\* C19: in the page-text path token[i] is attributed to the year of month
\* stamp[i] for every i below the number of stamps, every token at or beyond
\* the number of stamps is kept under the label UNKNOWN, and no token is
\* dropped: the history stores as many tokens as were found.
C19_PdfNoTokenDropped ==
    (outcome = "returned" /\ Returned.metadata.format = "PDF") =>
        \A a \in 1..Len(AccountsList) :
            LET history == AsMap(AccountsList[a].dpd_history)
                block == PdfBlockOf(PdfFilledLines(file.content.content),
                                    AccountsList[a].account_index)
                tokens == TokensFound(block)
                months == MonthStamps(block)
                stamped == {i \in 1..Len(tokens) : i <= Len(months)}
                beyond == SubSeq(tokens, Len(months) + 1, Len(tokens))
            IN  /\ \A i \in stamped :
                      /\ StampYear(months[i]) \in DOMAIN history
                      /\ \E n \in 1..Len(history[StampYear(months[i])]) :
                            history[StampYear(months[i])][n] = tokens[i]
                /\ beyond # <<>> => (UNKNOWN \in DOMAIN history /\ history[UNKNOWN] = beyond)
                /\ TotalTokens(history) = Len(tokens)

\* the year lines of a markup block that set a year of the history
YearHits(lines) ==
    {i \in 1..Len(lines) : lines[i].year # None /\ TokensAfter(lines, i) # <<>>}

\* the tokens of the lines after the year line at position i and before the
\* next year line
OwnTokens(lines, i) ==
    LET later == {j \in (i + 1)..Len(lines) : lines[j].year # None}
        stop == IF later = {} THEN Len(lines) + 1 ELSE Min(later)
    IN  Concat([j \in 1..(stop - 1 - i) |-> lines[i + j].toks])

\* the lines of the block account a of the report was built from
HtmlLinesOf(a) ==
    FilledLines(account_blocks(accounts_text(file.content.content))
                    [AccountsList[a].original_html_index[1]])

\* C20: in the markup path every year label stores only that year's tokens,
\* in source order: the tokens of the lines after the year's own line and
\* before the next year line, at most 12 of them; no token line is
\* attributed to more than one year.
C20_HtmlOwnYearTokensOnly ==
    (outcome = "returned" /\ Returned.metadata.format = "HTML") =>
        \A a \in 1..Len(AccountsList) :
            LET history == AsMap(AccountsList[a].dpd_history)
                lines == HtmlLinesOf(a)
            IN  /\ \A i \in YearHits(lines) :
                      /\ history[lines[i].year[1]] = OwnTokens(lines, i)
                      /\ Len(history[lines[i].year[1]]) <= 12
                /\ \A j \in 1..Len(lines) :
                      lines[j].toks # <<>> =>
                          Cardinality({i \in YearHits(lines) : i < j /\ j <= i + 12}) <= 1

(***************************************************************************)
(* The enquiry scan of the markup path, one loop iteration per step.       *)
(***************************************************************************)
MaxEnquiryLines == 4

InitScan ==
    /\ pc = "section"
    /\ now = StartDate
    /\ ProcIdle
    /\ \E heading \in BOOLEAN : \E n \in 0..MaxEnquiryLines :
       \E lines \in [1..n -> EnquiryLines] :
          /\ heading \/ n = 0
          /\ scan = [heading |-> heading, lines |-> lines, i |-> 0]
    /\ dump = <<>>
    /\ workers = <<>>
    /\ file = NoFile
    /\ invoked = <<>>
    /\ outcome = ""
    /\ report = NoReport
    /\ dpd_history = <<>>
    /\ derived = NoDerived
    /\ accounts = <<>>
    /\ final_default = None
    /\ all_enquiries = <<>>
    /\ latest = NoLatest

\* _extract_enquiries_from_html up to its loop: no heading, no enquiry; the
\* first line is dropped when it holds a needle
EnquiryScanStart ==
    /\ pc = "section"
    /\ IF ~scan.heading
       THEN /\ latest' = [latest EXCEPT !.html = <<>>]
            /\ pc' = "scanned"
            /\ UNCHANGED scan
       ELSE /\ scan' = [scan EXCEPT !.lines =
                           IF scan.lines # <<>> /\ HoldsHeadingNeedle(scan.lines[1].text)
                           THEN Tail(scan.lines) ELSE scan.lines]
            /\ pc' = "enquiry_loop"
            /\ UNCHANGED latest
    /\ UNCHANGED <<dump, workers, procVars, now, file, invoked, outcome, report, dpd_history,
                   derived, accounts, final_default, all_enquiries>>

\* one iteration of while i < len(lines) - 2
EnquiryScanStep ==
    /\ pc = "enquiry_loop"
    /\ scan.i < Len(scan.lines) - 2
    /\ all_enquiries' =
          IF /\ scan.lines[scan.i + 1].date # None
             /\ scan.lines[scan.i + 1].parsed # None
          THEN Append(all_enquiries, HtmlCandidate(scan.lines, scan.i))
          ELSE all_enquiries
    /\ scan' = [scan EXCEPT !.i = scan.i + 1]
    /\ UNCHANGED <<dump, workers, procVars, now, pc, file, invoked, outcome, report,
                   dpd_history, derived, accounts, final_default, latest>>

\* the loop condition fails: return _filter_latest_month_enquiries(all_enquiries)
EnquiryScanReturn ==
    /\ pc = "enquiry_loop"
    /\ ~(scan.i < Len(scan.lines) - 2)
    /\ latest' = [latest EXCEPT !.html = _filter_latest_month_enquiries(all_enquiries)]
    /\ pc' = "scanned"
    /\ UNCHANGED <<restVars, procVars, now, file, invoked, outcome, report, dpd_history,
                   derived, accounts, final_default, all_enquiries>>

NextScan == EnquiryScanStart \/ EnquiryScanStep \/ EnquiryScanReturn

SpecScan == InitScan /\ [][NextScan]_vars

(***************************************************************************)
(* Claims about the enquiry scan of the markup path (checked under         *)
(* SpecScan).                                                              *)
(***************************************************************************)
\* the positions of the lines with a date the formats parse, in order
DatedLines(lines) ==
    SetToSortedSeq({k \in 1..Len(lines) : lines[k].date # None /\ lines[k].parsed # None})

\* the nearest non-blank line before position k, None without one
MemberBefore(lines, k) ==
    LET filled == {j \in 1..(k - 1) : lines[j].text # ""}
    IN  IF filled = {} THEN None ELSE Some(lines[Max(filled)].text)

\* C21: every line after the enquiries heading that carries a parsable date
\* produces one candidate enquiry wherever it sits in the section, the last
\* and the next-to-last line included; its member is the nearest preceding
\* non-blank line and its purpose the line that follows it; the candidates
\* are then passed to the latest-month filter.
C21_EveryDateLineIsACandidate ==
    (pc = "scanned" /\ scan.heading) =>
        LET lines == scan.lines
            dated == DatedLines(lines)
        IN  /\ Len(all_enquiries) = Len(dated)
            /\ \A n \in 1..Min({Len(dated), Len(all_enquiries)}) :
                  /\ all_enquiries[n].date = lines[dated[n]].date[1]
                  /\ all_enquiries[n].member = MemberBefore(lines, dated[n])
                  /\ all_enquiries[n].purpose =
                        IF dated[n] < Len(lines) THEN Some(lines[dated[n] + 1].text) ELSE None
            /\ latest.html = _filter_latest_month_enquiries(all_enquiries)

(***************************************************************************)
(* The account scan of the page-text path, one iteration of its outer loop *)
(* per step. scan.lines holds the lines of the text that are not blank,    *)
(* each one stripped; scan.i is the line index (from 0), scan.dpd_parts    *)
(* the ranges <<i, j>> of the lines lines[i:j] joined into the grid block  *)
(* of each header processed so far.                                        *)
(***************************************************************************)
MaxHeaders == 202

\* n copies of a run of lines, one after the other
Repeat(run, n) == [k \in 1..(n * Len(run)) |-> run[((k - 1) % Len(run)) + 1]]

\* the runs long page texts repeat: a grid that deteriorates, a header
\* without a grid, and the two in turn
GridRuns ==
    {<<HeaderLine, StatusRow(<<"000", "015">>)>>,
     <<HeaderLine>>,
     <<HeaderLine, StatusRow(<<"000", "015">>), HeaderLine>>}

\* page texts with about max_accounts grid headers
LongTexts == {Repeat(run, n) : run \in GridRuns, n \in (max_accounts - 1)..MaxHeaders}

InitPdfScan ==
    /\ pc = "account_loop"
    /\ now = StartDate
    /\ ProcIdle
    /\ \E lines \in LongTexts \cup UNION {[1..n -> PdfLines] : n \in 0..MaxPdfLines} :
          scan = [lines |-> PdfFilledLines(lines), i |-> 0, account_idx |-> 1,
                  deteriorating_accounts |-> <<>>, dpd_parts |-> <<>>]
    /\ dump = <<>>
    /\ workers = <<>>
    /\ file = NoFile
    /\ invoked = <<>>
    /\ outcome = ""
    /\ report = NoReport
    /\ dpd_history = <<>>
    /\ derived = NoDerived
    /\ accounts = <<>>
    /\ final_default = None
    /\ all_enquiries = <<>>
    /\ latest = NoLatest

\* a variant without the ceiling
MutantCeilingReached(account_idx) == FALSE

\* if account_idx > max_accounts
CeilingReached(account_idx) == account_idx > max_accounts

\* an iteration at a grid header below the ceiling: build the account, keep
\* it when it deteriorates, continue at the line that ended its block
AccountScanHeader ==
    /\ pc = "account_loop"
    /\ scan.i < Len(scan.lines)
    /\ scan.lines[scan.i + 1].hdr
    /\ ~CeilingReached(scan.account_idx)
    /\ LET j == AfterBlock(scan.lines, scan.i + 1) - 1
       IN  scan' = [scan EXCEPT
                !.deteriorating_accounts =
                    @ \o Retained(PdfAccountAt(scan.lines, scan.i + 1, scan.account_idx)),
                !.dpd_parts = Append(@, <<scan.i, j>>),
                !.account_idx = @ + 1,
                !.i = j]
    /\ UNCHANGED <<dump, workers, procVars, now, pc, file, invoked, outcome, report,
                   dpd_history, derived, accounts, final_default, all_enquiries, latest>>

\* an iteration at a grid header at the ceiling: break and return
AccountScanBreak ==
    /\ pc = "account_loop"
    /\ scan.i < Len(scan.lines)
    /\ scan.lines[scan.i + 1].hdr
    /\ CeilingReached(scan.account_idx)
    /\ pc' = "accounts_returned"
    /\ UNCHANGED <<restVars, procVars, now, file, invoked, outcome, report, dpd_history,
                   derived, accounts, final_default, all_enquiries, latest>>

\* an iteration at any other line: i += 1
AccountScanSkip ==
    /\ pc = "account_loop"
    /\ scan.i < Len(scan.lines)
    /\ ~scan.lines[scan.i + 1].hdr
    /\ scan' = [scan EXCEPT !.i = @ + 1]
    /\ UNCHANGED <<dump, workers, procVars, now, pc, file, invoked, outcome, report,
                   dpd_history, derived, accounts, final_default, all_enquiries, latest>>

\* the loop condition fails: return deteriorating_accounts
AccountScanReturn ==
    /\ pc = "account_loop"
    /\ ~(scan.i < Len(scan.lines))
    /\ pc' = "accounts_returned"
    /\ UNCHANGED <<restVars, procVars, now, file, invoked, outcome, report, dpd_history,
                   derived, accounts, final_default, all_enquiries, latest>>

NextPdfScan ==
    AccountScanHeader \/ AccountScanBreak \/ AccountScanSkip \/ AccountScanReturn

SpecPdfScan == InitPdfScan /\ [][NextPdfScan]_vars

(***************************************************************************)
(* Claims about the account scan of the page-text path (checked under      *)
(* SpecPdfScan).                                                           *)
(***************************************************************************)
\* C22: the page-text account scan processes at most 200 grid headers for
\* any document: once 200 headers have been processed the scan stops at the
\* next header, so the returned account list has at most 200 entries and
\* every account_index is between 1 and 200, strictly increasing along the
\* list.
C22_AtMost200Headers ==
    LET list == scan.deteriorating_accounts
        headers == HeaderPositions(scan.lines)
    IN  /\ Len(scan.dpd_parts) <= 200
        /\ Len(list) <= 200
        /\ \A n \in 1..Len(list) :
              /\ list[n]["account_index"] \in 1..200
              /\ n > 1 => list[n - 1]["account_index"] < list[n]["account_index"]
        /\ pc = "accounts_returned" =>
              /\ Len(scan.dpd_parts) = Min({Len(headers), 200})
              /\ Len(headers) > 200 => scan.i + 1 = headers[201]

\* a scan that returned at the 201st header with 200 accounts in its list
C22_Witness ==
    /\ pc = "accounts_returned"
    /\ Len(HeaderPositions(scan.lines)) > 200
    /\ Len(scan.deteriorating_accounts) = 200
    /\ scan.deteriorating_accounts[200]["account_index"] = 200
    /\ scan.i < Len(scan.lines)

(***************************************************************************)
(* The 5-block scan extract_dpd_blocks, one iteration of its outer loop    *)
(* per step. scan.lines holds the lines of the text, the blank ones        *)
(* included; rstrip takes nothing from what the scan reads of a line.      *)
(***************************************************************************)
MaxLoopLines == 3

MaxBlockHeaders == 6

dpd_blocks_max_accounts == 5

\* "(UP TO" in lines[i].upper()
HoldsUpTo(line) == line.upto

\* patterns['status_token'].findall(row): STD, XXX in upper case only, and
\* three digits
status_token_findall(row) == row.statuses

\* how the inner loop takes a row: a blank row and a row without month or
\* status token end the block
RowKind(line) ==
    IF line.blank THEN "break"
    ELSE IF line.months # <<>> THEN "month"
    ELSE IF status_token_findall(line) # <<>> THEN "status"
    ELSE "break"

\* the index (from 0) at which the inner loop started at index i stops
RowsEnd(lines, i) ==
    LET stops == {k \in i..(Len(lines) - 1) : RowKind(lines[k + 1]) = "break"}
    IN  IF stops = {} THEN Len(lines) ELSE Min(stops)

\* the index of the first row after the header at index i
RowsStart(lines, i) ==
    IF i + 1 < Len(lines) /\ HoldsUpTo(lines[i + 2]) THEN i + 2 ELSE i + 1

\* the dict appended for the header at index i
DpdBlockAt(lines, i, account_idx) ==
    LET first == RowsStart(lines, i)
        last == RowsEnd(lines, first)
        rows == SubSeq(lines, first + 1, last)
        flat_status_tokens ==
            Concat([r \in 1..Len(rows) |->
                IF RowKind(rows[r]) = "status" THEN status_token_findall(rows[r]) ELSE <<>>])
        flat_month_tokens ==
            Concat([r \in 1..Len(rows) |->
                IF RowKind(rows[r]) = "month" THEN rows[r].months ELSE <<>>])
        total_pairs == Min({Len(flat_status_tokens), Len(flat_month_tokens)})
        entries == [idx \in 1..total_pairs |->
                       [status |-> flat_status_tokens[idx],
                        numeric_status |-> _dpd_to_number(flat_status_tokens[idx]),
                        month |-> flat_month_tokens[idx]]]
        numeric_statuses == [idx \in 1..total_pairs |-> entries[idx].numeric_status]
    IN  [account_index |-> account_idx,
         total_entries |-> Len(entries),
         numeric_status_count |-> Len(SelectSeq(numeric_statuses, LAMBDA n : n > 0)),
         per_account_dpd_average |->
             IF numeric_statuses # <<>>
             THEN Some(Round1(SumSeq(numeric_statuses), Len(numeric_statuses)))
             ELSE None,
         entries |-> entries]

\* the lines the block scan is run on
BlockLines ==
    {HeaderLine, UpToLine, BlankLine, MemberLine,
     StatusRow(<<"000", "015">>), StatusRow(<<"std">>),
     MonthsRow(<<"12-25", "01-26">>)}

\* texts with about dpd_blocks_max_accounts headers
ManyBlocks ==
    {Repeat(run, n) :
        run \in {<<HeaderLine>>,
                 <<HeaderLine, StatusRow(<<"000", "015">>), MonthsRow(<<"12-25", "01-26">>)>>},
        n \in (dpd_blocks_max_accounts - 1)..MaxBlockHeaders}

\* the three scans before their first iteration
EnquiryScanOf(lines) == [heading |-> TRUE, lines |-> lines, i |-> 0]

AccountScanOf(lines) ==
    [lines |-> lines, i |-> 0, account_idx |-> 1,
     deteriorating_accounts |-> <<>>, dpd_parts |-> <<>>]

BlockScanOf(lines) ==
    [lines |-> lines, i |-> 0, account_idx |-> 1, accounts |-> <<>>,
     final_dpd_average |-> None]

InitLoops ==
    /\ now = StartDate
    /\ ProcIdle
    /\ \/ /\ pc = "enquiry_loop"
          /\ \E n \in 0..MaxLoopLines : \E lines \in [1..n -> EnquiryLines] :
                scan = EnquiryScanOf(lines)
       \/ /\ pc = "account_loop"
          /\ \E lines \in LongTexts \cup UNION {[1..n -> PdfLines] : n \in 0..MaxLoopLines} :
                scan = AccountScanOf(PdfFilledLines(lines))
       \/ /\ pc = "blocks_loop"
          /\ \E lines \in ManyBlocks \cup UNION {[1..n -> BlockLines] : n \in 0..MaxLoopLines} :
                scan = BlockScanOf(lines)
    /\ dump = <<>>
    /\ workers = <<>>
    /\ file = NoFile
    /\ invoked = <<>>
    /\ outcome = ""
    /\ report = NoReport
    /\ dpd_history = <<>>
    /\ derived = NoDerived
    /\ accounts = <<>>
    /\ final_default = None
    /\ all_enquiries = <<>>
    /\ latest = NoLatest

\* an iteration at a header below the ceiling: read the rows of the block
\* and continue at the row that ended it
BlockScanHeader ==
    /\ pc = "blocks_loop"
    /\ scan.i < Len(scan.lines)
    /\ scan.lines[scan.i + 1].hdr
    /\ ~(scan.account_idx > dpd_blocks_max_accounts)
    /\ scan' = [scan EXCEPT
            !.accounts = Append(@, DpdBlockAt(scan.lines, scan.i, scan.account_idx)),
            !.account_idx = @ + 1,
            !.i = RowsEnd(scan.lines, RowsStart(scan.lines, scan.i))]
    /\ UNCHANGED <<dump, workers, procVars, now, pc, file, invoked, outcome, report,
                   dpd_history, derived, accounts, final_default, all_enquiries, latest>>

\* an iteration at a header at the ceiling, or at any other line: i += 1
BlockScanSkip ==
    /\ pc = "blocks_loop"
    /\ scan.i < Len(scan.lines)
    /\ \/ ~scan.lines[scan.i + 1].hdr
       \/ scan.account_idx > dpd_blocks_max_accounts
    /\ scan' = [scan EXCEPT !.i = @ + 1]
    /\ UNCHANGED <<dump, workers, procVars, now, pc, file, invoked, outcome, report,
                   dpd_history, derived, accounts, final_default, all_enquiries, latest>>

\* the loop condition fails: the final average and the returned dict
BlockScanReturn ==
    /\ pc = "blocks_loop"
    /\ ~(scan.i < Len(scan.lines))
    /\ LET account_averages ==
               Present([n \in 1..Len(scan.accounts) |->
                           scan.accounts[n].per_account_dpd_average])
       IN  scan' = [scan EXCEPT !.final_dpd_average =
                IF account_averages # <<>>
                THEN Some(RoundFloat(FloatSum(account_averages), Len(account_averages)))
                ELSE None]
    /\ pc' = "blocks_returned"
    /\ UNCHANGED <<dump, workers, procVars, now, file, invoked, outcome, report,
                   dpd_history, derived, accounts, final_default, all_enquiries, latest>>

NextBlocks == BlockScanHeader \/ BlockScanSkip \/ BlockScanReturn

NextLoops ==
    \/ EnquiryScanStep \/ EnquiryScanReturn
    \/ NextPdfScan
    \/ NextBlocks

LoopPositions == {"enquiry_loop", "account_loop", "blocks_loop"}

\* a running call is not suspended for ever: weak fairness of NextLoops,
\* with ENABLED <<NextLoops>>_vars written as the test it amounts to (the
\* guards of the actions of a loop cover every state at its position)
KeepsRunning == []<>(pc \notin LoopPositions) \/ []<><<NextLoops>>_vars

SpecLoops == InitLoops /\ [][NextLoops]_vars /\ KeepsRunning

(***************************************************************************)
(* Claims about the scanning loops (checked under SpecLoops).              *)
(***************************************************************************)
\* no line index lies in two of the ranges lines[i:j]
DisjointParts(parts) ==
    \A a, b \in 1..Len(parts) :
        a < b => parts[a][2] <= parts[b][1]

\* the account scan is about to examine a grid header
AtGridHeader ==
    /\ pc = "account_loop"
    /\ scan.i < Len(scan.lines)
    /\ scan.lines[scan.i + 1].hdr

\* C23: every scanning loop terminates on every finite document. In the
\* page-text account scan the line index strictly increases on every
\* iteration: after a header it jumps to the block boundary, at least one
\* line further, and the line that ended the block is the next one
\* examined, so each line is consumed into at most one account's grid
\* block. The 5-block scan and the markup enquiry scan advance on every
\* iteration as well, and the former returns at most 5 blocks.
C23_ScansTerminate ==
    /\ [][(pc \in LoopPositions /\ pc' = pc) => (scan'.i > scan.i)]_vars
    /\ [][(pc = "account_loop" /\ scan'.dpd_parts # scan.dpd_parts) =>
            (scan'.dpd_parts = Append(scan.dpd_parts, <<scan.i, scan'.i>>))]_vars
    /\ [](AtGridHeader => AfterBlock(scan.lines, scan.i + 1) - 1 >= scan.i + 1)
    /\ [](pc \in {"account_loop", "accounts_returned"} => DisjointParts(scan.dpd_parts))
    /\ [](pc \in {"blocks_loop", "blocks_returned"} => Len(scan.accounts) <= 5)
    /\ <>(pc \notin LoopPositions)

\* the 5-block scan returned 5 blocks of a text with more grid headers
C23_Witness ==
    /\ pc = "blocks_returned"
    /\ Len(scan.accounts) = 5
    /\ Len(HeaderPositions(scan.lines)) > 5
    /\ scan.accounts[1].entries # <<>>

(***************************************************************************)
(* Claims about the three rules of the reasoning (checked under SpecDpd).  *)
(***************************************************************************)
\* C25: no DPD history makes _get_deterioration_reasoning return the third
\* rule's result (EXPLICIT_DIRTY): for every year and every token sequence,
\* whenever a dirty code such as 015, 032 or 046 is present, rule 1 (no
\* clean token) or rule 2 (some adjacent clean/dirty pair) has already fired
\* for that year, so rule 3 never determines the reasoning.
C25_Rule3NeverDecides ==
    /\ \A y \in DOMAIN History :
          NamesKnownDirty(TokensRead(y)) =>
              (AllDirty(TokensRead(y)) \/ HasChange(TokensRead(y)))
    /\ pc # "history" => derived.reasoning.kind # "EXPLICIT_DIRTY"

\* a history whose only firing year holds the code 015 between clean
\* tokens: the reasoning returned is the change that precedes it
C25_Witness ==
    /\ pc = "reasoned"
    /\ \E y \in DOMAIN History :
          /\ FiringYears = {y}
          /\ NamesKnownDirty(TokensRead(y))
          /\ ~AllDirty(TokensRead(y))
          /\ Len(TokensRead(y)) = 3
          /\ TokensRead(y)[2] = "015"
          /\ derived.reasoning = Transition(TokensRead(y)[1], "015", y)

(***************************************************************************)
(* Claims about the derived fields of an account (checked under Spec).     *)
(***************************************************************************)
\* some year of the history stores a token that is not a clean sentinel
DirtyIn(history) ==
    \E y \in DOMAIN AsMap(history) :
        \E i \in 1..Len(DpdValues(AsMap(history)[y])) :
            ~IsClean(DpdValues(AsMap(history)[y])[i])

\* the three derived fields of a unified account agree with each other and
\* with its history
FieldsAgree(account) ==
    LET dirty == DirtyIn(account.dpd_history)
        month == account.default_month_number
        average == account.dpd_summary.account_dpd_average
    IN  /\ (account.deterioration_reasoning # NoReasoning) <=> dirty
        /\ (month # None /\ month[1] >= 10) <=> dirty
        /\ (average # None /\ average[1] > 0) <=> dirty

\* the fields agree for the account either converter builds from any
\* history, deteriorating or not
HistoriesAgree ==
    \A order \in KeyOrders : \A lens \in LengthsFor(order) :
    \A first \in StringsOfLen(lens[1]) : \A second \in StringsOfLen(lens[2]) :
    \A third \in StringsOfLen(lens[3]) :
        LET h == HistoryOf(order, <<first, second, third>>)
        IN  /\ FieldsAgree(PdfUnifiedAccount(PdfAccountOf(h, 1)))
            /\ FieldsAgree(HtmlUnifiedAccount(HtmlAccountOf(h, 1), 1))

\* C26: for every account built from a DPD history the three derived fields
\* agree: deterioration_reasoning is non-empty if and only if some year of
\* the history contains a non-clean token, if and only if the account has a
\* defined default month (at least 1), if and only if it has a per-account
\* DPD average greater than 0. Consequently every account in a PDF report's
\* list has a non-null default_month_number and a positive
\* account_dpd_average, and a PDF report's final_dpd_average is null exactly
\* when its account list is empty.
C26_DerivedFieldsAgree ==
    /\ HistoriesAgree
    /\ outcome = "returned" =>
          /\ \A a \in 1..Len(AccountsList) : FieldsAgree(AccountsList[a])
          /\ Returned.metadata.format = "PDF" =>
                /\ \A a \in 1..Len(AccountsList) :
                      /\ AccountsList[a].default_month_number # None
                      /\ AccountsList[a].dpd_summary.account_dpd_average # None
                      /\ AccountsList[a].dpd_summary.account_dpd_average[1] > 0
                /\ (Returned.accounts.final_dpd_average = None) <=> (AccountsList = <<>>)

\* a PDF report with an account whose tokens have no month stamp, and with
\* a final average
C26_Witness ==
    /\ outcome = "returned"
    /\ Returned.metadata.format = "PDF"
    /\ Len(AccountsList) >= 1
    /\ UNKNOWN \in KeySet(AccountsList[1].dpd_history)
    /\ AccountsList[1].default_month_number = Some(20)
    /\ Returned.accounts.final_dpd_average # None

(***************************************************************************)
(* The upload page, its form and CIBILDumper (src/cibil/views.py,          *)
(* src/cibil/forms.py, src/cibil/services/dumper.py). A time of day is the *)
(* pair <<hour, minute>> datetime.now() reports; an uploaded file is its   *)
(* name, its size in bytes and the object its upload puts under raw-data/; *)
(* trace keeps the calls dump_files makes on the object store and on the   *)
(* processor, in call order.                                               *)
(***************************************************************************)
\* the most files of one request
MaxDumpFiles == 2

CIBIL_DUMP_START_HOUR == 10

CIBIL_DUMP_END_HOUR == 20

MAX_UPLOAD_SIZE == 10 * 1024 * 1024

ALLOWED_EXTENSIONS == {".pdf", ".html"}

\* the times of day a request arrives at: around both ends of the window
\* and far from them
DumpTimes == {0, 9, 10, 19, 20, 21} \X {0, 1, 59}

\* the clock does not run backwards between two readings of one request
NotBefore(later, earlier) ==
    later[1] > earlier[1] \/ (later[1] = earlier[1] /\ later[2] >= earlier[2])

\* a variant that admits the whole of the end hour
Mutant_is_within_dump_window(current_hour, current_minute) ==
    CIBIL_DUMP_START_HOUR <= current_hour /\ current_hour <= CIBIL_DUMP_END_HOUR

\* is_within_dump_window with the reading of datetime.now()
is_within_dump_window(current_hour, current_minute) ==
    IF CIBIL_DUMP_START_HOUR <= current_hour /\ current_hour < CIBIL_DUMP_END_HOUR THEN TRUE
    ELSE IF current_hour = CIBIL_DUMP_END_HOUR /\ current_minute = 0 THEN TRUE
    ELSE FALSE

\* an uploaded file: f.name, f.size and the object under its key
UploadedFile(filename, size, facts) ==
    [name |-> filename, size |-> size, file |-> ProcFile(RawKey(filename), facts, <<>>)]

\* a size far from the limit
SmallSize == 2048

\* the files of the requests: a report at the size limit and the same
\* report one byte over it, a report of the same person of a later day
\* under an upper-case suffix, a report without a name, and files with a
\* suffix the form does not allow
UploadedFiles ==
    {UploadedFile("ravi_dec.pdf", MAX_UPLOAD_SIZE,
                  ReportFacts(Some("RAVI KUMAR"), Some("ABCDE1234F"), Some("24-12-2025"))),
     UploadedFile("ravi_dec.pdf", MAX_UPLOAD_SIZE + 1,
                  ReportFacts(Some("RAVI KUMAR"), Some("ABCDE1234F"), Some("24-12-2025"))),
     UploadedFile("ravi_jan.HTML", SmallSize,
                  ReportFacts(Some("RAVI KUMAR"), Some("ABCDE1234F"), Some("05-01-2026"))),
     UploadedFile("noname.pdf", SmallSize,
                  ReportFacts(None, Some("ABCDE1234F"), Some("24-12-2025"))),
     UploadedFile("report.htm", SmallSize,
                  ReportFacts(Some("RAVI KUMAR"), Some("ABCDE1234F"), Some("05-01-2026"))),
     UploadedFile("notes.txt", SmallSize, ReportFacts(None, None, None))}

\* request.FILES.getlist('files'): no file, or up to MaxDumpFiles files in
\* any order, a file more than once included
RequestFiles == UNION {[1..n -> UploadedFiles] : n \in 0..MaxDumpFiles}

\* the files the loop of DumpUploadForm.clean raises on
Rejected(files) ==
    {k \in 1..Len(files) :
        \/ files[k].size > MAX_UPLOAD_SIZE
        \/ Lower(splitext(files[k].name)[2]) \notin ALLOWED_EXTENSIONS}

\* DumpUploadForm.clean on the files of the request: the ValidationError
\* it raises, the empty text when it returns
clean(files) ==
    IF files = <<>> THEN "Please select at least one file"
    ELSE IF Rejected(files) = {} THEN ""
    ELSE IF files[Min(Rejected(files))].size > MAX_UPLOAD_SIZE THEN "exceeds maximum size"
    ELSE "unsupported extension"

\* the collaborator calls of process_single_file that raise during a dump
DumpFailurePoints == {"none", "download", "commit"}

\* the statuses dump_files counts as a successful upload
MutantCountsAsSuccessful(status) == status \in {Some("INSERTED"), Some("REPLACED")}

CountsAsSuccessful(status) ==
    status \in {Some("INSERTED"), Some("REPLACED")} \/ status = Some("SKIPPED")

\* dump_files before its loop
DumpStarted(time, files) ==
    [hour |-> time[1], minute |-> time[2], files |-> files, i |-> 0,
     successful_uploads |-> <<>>, failed_uploads |-> <<>>,
     processed_details |-> [inserted |-> 0, replaced |-> 0, skipped |-> 0, errors |-> 0],
     trace |-> <<>>, returned |-> None]

\* one pass of the loop of dump_files whose upload failed
UploadFailed(d, filename) ==
    [d EXCEPT !.i = d.i + 1,
              !.failed_uploads = Append(d.failed_uploads, <<filename, "upload">>),
              !.trace = Append(d.trace, [op |-> "upload_fileobj", key |-> RawKey(filename),
                                         ok |-> FALSE, status |-> None])]

\* one pass of the loop of dump_files whose upload succeeded and whose
\* processing returned processing_result
UploadedAndProcessed(d, filename, processing_result) ==
    LET status == processing_result.status
        details == d.processed_details
        traced == d.trace \o <<[op |-> "upload_fileobj", key |-> RawKey(filename),
                                ok |-> TRUE, status |-> None],
                               [op |-> "process_single_file", key |-> RawKey(filename),
                                ok |-> TRUE, status |-> status]>>
    IN  IF CountsAsSuccessful(status)
        THEN [d EXCEPT !.i = d.i + 1, !.trace = traced,
                  !.successful_uploads = Append(d.successful_uploads, filename),
                  !.processed_details =
                      IF status = Some("INSERTED")
                      THEN [details EXCEPT !.inserted = details.inserted + 1]
                      ELSE IF status = Some("REPLACED")
                      THEN [details EXCEPT !.replaced = details.replaced + 1]
                      ELSE [details EXCEPT !.skipped = details.skipped + 1]]
        ELSE [d EXCEPT !.i = d.i + 1, !.trace = traced,
                  !.processed_details = [details EXCEPT !.errors = details.errors + 1],
                  !.failed_uploads =
                      Append(d.failed_uploads, <<filename, processing_result.error_message>>)]

\* what dump_files returns after its loop: success and the message (its
\* kind, the counts and the names it is built from)
DumpReturned(d) ==
    IF d.successful_uploads # <<>>
    THEN [success |-> TRUE, kind |-> "uploaded",
          total_success |-> Len(d.successful_uploads),
          details |-> SelectSeq(<<<<d.processed_details.inserted, "inserted">>,
                                  <<d.processed_details.replaced, "replaced">>,
                                  <<d.processed_details.skipped, "skipped">>>>,
                                LAMBDA part : part[1] > 0),
          names |-> d.successful_uploads,
          total_failed |-> Len(d.failed_uploads)]
    ELSE [success |-> FALSE, kind |-> "failed_all", total_success |-> 0, details |-> <<>>,
          names |-> [k \in 1..Len(d.failed_uploads) |-> d.failed_uploads[k][1]],
          total_failed |-> Len(d.failed_uploads)]

\* what dump_files returns before its loop
DumpRefused(kind) ==
    [success |-> FALSE, kind |-> kind, total_success |-> 0, details |-> <<>>,
     names |-> <<>>, total_failed |-> 0]

\* the row of a report of 24-12-2025 and its object, as an earlier upload
\* left them
OneRow ==
    <<_build_db_record("ravi kumar", "ABCDE1234F",
                       _build_s3_filename("ravi kumar", "ABCDE1234F", "ravi_dec.pdf"),
                       <<2025, 12, 24>>)>>

InitDump ==
    /\ pc = "dump_page"
    /\ now \in StartDates
    /\ \/ /\ table_cibil = <<>>
          /\ processed_data = <<>>
       \/ /\ table_cibil = OneRow
          /\ processed_data = (OneRow[1].url :> OneRow[1].report_data_and_time)
    /\ result = NoResult
    /\ calls = <<>>
    /\ RestIdle
    /\ file = NoFile
    /\ invoked = <<>>
    /\ outcome = ""
    /\ report = NoReport
    /\ dpd_history = <<>>
    /\ derived = NoDerived
    /\ accounts = <<>>
    /\ final_default = None
    /\ all_enquiries = <<>>
    /\ latest = NoLatest

\* dump_page on a POST: outside the window, or with a form that is not
\* valid (clean raises), the page is rendered; else dump_files is called
DumpPagePost ==
    /\ pc = "dump_page"
    /\ \E time \in DumpTimes : \E files \in RequestFiles :
          IF ~is_within_dump_window(time[1], time[2])
          THEN /\ pc' = "page_rendered"
               /\ dump' = [page_time |-> time, files |-> files, message |-> "window",
                           form_error |-> ""]
          ELSE IF clean(files) # ""
          THEN /\ pc' = "page_rendered"
               /\ dump' = [page_time |-> time, files |-> files, message |-> "form",
                           form_error |-> clean(files)]
          ELSE /\ pc' = "dump_files"
               /\ dump' = [page_time |-> time, files |-> files, message |-> "",
                           form_error |-> ""]
    /\ UNCHANGED <<scan, workers, procVars, now, file, invoked, outcome, report, dpd_history,
                   derived, accounts, final_default, all_enquiries, latest>>

\* dump_files up to its loop, at a reading of the clock not before the one
\* of the page
DumpFilesStart ==
    /\ pc = "dump_files"
    /\ \E time \in DumpTimes :
          /\ NotBefore(time, dump.page_time)
          /\ IF ~is_within_dump_window(time[1], time[2])
             THEN /\ pc' = "dump_returned"
                  /\ dump' = [DumpStarted(time, dump.files) EXCEPT
                                 !.returned = Some(DumpRefused("window"))]
             ELSE IF dump.files = <<>>
             THEN /\ pc' = "dump_returned"
                  /\ dump' = [DumpStarted(time, dump.files) EXCEPT
                                 !.returned = Some(DumpRefused("no_files"))]
             ELSE /\ pc' = "dump_loop"
                  /\ dump' = DumpStarted(time, dump.files)
    /\ UNCHANGED <<scan, workers, procVars, now, file, invoked, outcome, report, dpd_history,
                   derived, accounts, final_default, all_enquiries, latest>>

\* one pass of the loop: the upload to raw-data/ fails
DumpFileUploadFails ==
    /\ pc = "dump_loop"
    /\ dump.i < Len(dump.files)
    /\ dump' = UploadFailed(dump, dump.files[dump.i + 1].name)
    /\ UNCHANGED <<scan, workers, procVars, pc, now, file, invoked, outcome, report,
                   dpd_history, derived, accounts, final_default, all_enquiries, latest>>

\* one pass of the loop: the upload succeeds and the processor is called on
\* the key. The loop waits for the call to return before it turns to the
\* next file, and the request is the only one that is served: the call runs
\* from its first to its last statement with no statement of another call
\* in between (calls of two requests at the same time: SpecProc, SpecConc)
DumpFileProcessed ==
    /\ pc = "dump_loop"
    /\ dump.i < Len(dump.files)
    /\ \E failing \in DumpFailurePoints :
       \E run \in process_single_file(dump.files[dump.i + 1].file, failing) :
          /\ result' = run.result
          /\ calls' = run.calls
          /\ table_cibil' = run.rows
          /\ processed_data' = run.objects
          /\ dump' = UploadedAndProcessed(dump, dump.files[dump.i + 1].name, run.result)
    /\ UNCHANGED <<scan, workers, pc, now, file, invoked, outcome, report, dpd_history,
                   derived, accounts, final_default, all_enquiries, latest>>

\* dump_files after its loop
DumpFilesReturn ==
    /\ pc = "dump_loop"
    /\ dump.i = Len(dump.files)
    /\ pc' = "dump_returned"
    /\ dump' = [dump EXCEPT !.returned = Some(DumpReturned(dump))]
    /\ UNCHANGED <<scan, workers, procVars, now, file, invoked, outcome, report, dpd_history,
                   derived, accounts, final_default, all_enquiries, latest>>

NextDump ==
    DumpPagePost \/ DumpFilesStart \/ DumpFileUploadFails \/ DumpFileProcessed
    \/ DumpFilesReturn

SpecDump == InitDump /\ [][NextDump]_vars

(***************************************************************************)
(* Claims about dump_files (checked under SpecDump).                       *)
(***************************************************************************)
\* minutes since midnight
MinuteOfDay(hour, minute) == 60 * hour + minute

\* the time lies in 10:00 .. 20:00, both ends included
InsideWindow(hour, minute) ==
    /\ MinuteOfDay(10, 0) <= MinuteOfDay(hour, minute)
    /\ MinuteOfDay(hour, minute) <= MinuteOfDay(20, 0)

\* the trace of the first n files of a request: an upload per file in input
\* order, and the processing of a key right after its successful upload
\* and nowhere else
TraceOfFirst(trace, files, n) ==
    LET uploads == SelectSeq(trace, LAMBDA e : e.op = "upload_fileobj")
    IN  /\ Len(uploads) = n
        /\ \A k \in 1..n : uploads[k].key = RawKey(files[k].name)
        /\ \A p \in 1..Len(trace) :
              /\ (trace[p].op = "upload_fileobj" /\ trace[p].ok) =>
                    /\ p < Len(trace)
                    /\ trace[p + 1].op = "process_single_file"
                    /\ trace[p + 1].key = trace[p].key
              /\ trace[p].op = "process_single_file" =>
                    /\ p > 1
                    /\ trace[p - 1].op = "upload_fileobj"
                    /\ trace[p - 1].ok
                    /\ trace[p - 1].key = trace[p].key

\* is_within_dump_window admits exactly the times of 10:00..20:00
WindowIsTenToTwenty ==
    \A hour \in 0..23 : \A minute \in 0..59 :
        is_within_dump_window(hour, minute) <=> InsideWindow(hour, minute)

\* C24: dump_files accepts uploads only inside the dump window. When the
\* local time it reads is outside 10:00..20:00 (20:00 itself is admitted)
\* it returns (False, message) and has uploaded no file and called the
\* processor for no file; inside the window with a non-empty list it
\* uploads every file to raw-data/ in input order and calls the processor
\* on each uploaded key before it turns to the next file.
C24_UploadsOnlyInsideWindow ==
    /\ WindowIsTenToTwenty
    /\ pc \in {"dump_loop", "dump_returned"} =>
          IF ~InsideWindow(dump.hour, dump.minute)
          THEN /\ pc = "dump_returned"
               /\ dump.returned # None
               /\ ~dump.returned[1].success
               /\ dump.returned[1].kind = "window"
               /\ dump.trace = <<>>
               /\ calls = <<>>
               /\ result = NoResult
          ELSE /\ dump.files # <<>>
               /\ TraceOfFirst(dump.trace, dump.files, dump.i)
               /\ pc = "dump_returned" => dump.i = Len(dump.files)
    /\ pc = "page_rendered" => (dump.message = "window" <=>
                                   ~InsideWindow(dump.page_time[1], dump.page_time[2]))

\* a call at 20:00 uploaded and processed two files
C24_Witness ==
    /\ pc = "dump_returned"
    /\ dump.hour = 20
    /\ dump.minute = 0
    /\ Len(dump.files) = 2
    /\ Len(dump.trace) = 4
    /\ dump.returned[1].success

\* C30: for a call of dump_files inside the window with a non-empty list,
\* every input file is in exactly one of the two lists: successful when
\* its processing returned INSERTED, REPLACED or SKIPPED, failed when its
\* upload failed or its processing returned ERROR; inserted + replaced +
\* skipped is the number of successful files, errors is the number of
\* files uploaded but not processed successfully, and the call returns
\* success exactly when the successful list is not empty.
C30_OutcomeListsAndCounters ==
    (pc = "dump_returned" /\ dump.returned[1].kind \in {"uploaded", "failed_all"}) =>
        LET n == Len(dump.files)
            uploads == SelectSeq(dump.trace, LAMBDA e : e.op = "upload_fileobj")
            \* the status the processor returned for the k-th file, None
            \* when its upload failed
            StatusOf(k) ==
                LET p == CHOOSE p \in 1..Len(dump.trace) :
                            /\ dump.trace[p].op = "upload_fileobj"
                            /\ Len(SelectSeq(SubSeq(dump.trace, 1, p),
                                             LAMBDA e : e.op = "upload_fileobj")) = k
                IN  IF dump.trace[p].ok THEN dump.trace[p + 1].status ELSE None
            good == {k \in 1..n : StatusOf(k) \in {Some("INSERTED"), Some("REPLACED"),
                                                    Some("SKIPPED")}}
            bad == {k \in 1..n : StatusOf(k) \in {None, Some("ERROR")}}
            NamesOf(S) ==
                LET marked == [k \in 1..n |-> IF k \in S THEN <<dump.files[k].name>> ELSE <<>>]
                    picked == SelectSeq(marked, LAMBDA m : m # <<>>)
                IN  [k \in 1..Len(picked) |-> picked[k][1]]
            details == dump.processed_details
        IN  /\ Len(uploads) = n
            /\ good \cup bad = 1..n
            /\ good \cap bad = {}
            /\ dump.successful_uploads = NamesOf(good)
            /\ [k \in 1..Len(dump.failed_uploads) |-> dump.failed_uploads[k][1]] = NamesOf(bad)
            /\ details.inserted = Cardinality({k \in good : StatusOf(k) = Some("INSERTED")})
            /\ details.replaced = Cardinality({k \in good : StatusOf(k) = Some("REPLACED")})
            /\ details.skipped = Cardinality({k \in good : StatusOf(k) = Some("SKIPPED")})
            /\ details.inserted + details.replaced + details.skipped
                   = Len(dump.successful_uploads)
            /\ details.errors = Cardinality({k \in bad : StatusOf(k) = Some("ERROR")})
            /\ dump.returned[1].success <=> good # {}
            /\ dump.returned[1].success <=> dump.successful_uploads # <<>>

\* a call returned success with one file skipped and one file uploaded
\* whose processing failed
C30_Witness ==
    /\ pc = "dump_returned"
    /\ dump.returned[1].success
    /\ dump.processed_details.skipped = 1
    /\ dump.processed_details.errors = 1
    /\ Len(dump.failed_uploads) = 1

(***************************************************************************)
(* Calls of process_single_file one after the other, on a table with at    *)
(* most one row per name+PAN, while the calendar moves on. file is the raw *)
(* object the last call read.                                              *)
(***************************************************************************)
\* the raw objects of the calls: reports of one person of one day, of a
\* later day and without date, a report of another person and a report
\* without a name
SeqFiles ==
    {f \in ProcFiles :
        f.name \in {RawKey("ravi_dec.pdf"), RawKey("ravi_jan.html"), RawKey("ravi_nodate.pdf"),
                    RawKey("asha.pdf"), RawKey("noname.pdf")}}

\* the collaborator calls that raise in one of the calls
SeqFailurePoints == {"none", "delete_all", "commit"}

InitSeq ==
    /\ pc = "serving"
    /\ now \in StartDates
    /\ \/ /\ table_cibil = <<>>
          /\ processed_data = <<>>
       \/ /\ table_cibil = OneRow
          /\ processed_data = (OneRow[1].url :> OneRow[1].report_data_and_time)
    /\ result = NoResult
    /\ calls = <<>>
    /\ RestIdle
    /\ file = NoFile
    /\ invoked = <<>>
    /\ outcome = ""
    /\ report = NoReport
    /\ dpd_history = <<>>
    /\ derived = NoDerived
    /\ accounts = <<>>
    /\ final_default = None
    /\ all_enquiries = <<>>
    /\ latest = NoLatest

\* one call of process_single_file, after the one before it returned and
\* with no other call in flight: its statements run from the first to the
\* last with no statement of another call in between (two calls at the
\* same time: SpecProc, SpecConc)
ProcessNextFile ==
    /\ pc = "serving"
    /\ \E f \in SeqFiles : \E failing \in SeqFailurePoints :
       \E run \in process_single_file(f, failing) :
          /\ file' = f
          /\ result' = run.result
          /\ calls' = run.calls
          /\ table_cibil' = run.rows
          /\ processed_data' = run.objects
    /\ UNCHANGED <<restVars, pc, now, invoked, outcome, report, dpd_history, derived,
                   accounts, final_default, all_enquiries, latest>>

NextSeq == ProcessNextFile \/ Tick

SpecSeq == InitSeq /\ [][NextSeq]_vars

(***************************************************************************)
(* Claims about calls made one at a time (checked under SpecSeq).          *)
(***************************************************************************)
\* no two rows of one name+PAN
AtMostOnePerKey(rows) ==
    \A i, j \in 1..Len(rows) :
        (rows[i].name = rows[j].name /\ rows[i].pan_card = rows[j].pan_card) => i = j

\* every name+PAN with a row keeps a row, of a day that is not earlier
KeysKeptNotOlder(before, after) ==
    \A i \in 1..Len(before) :
        \E j \in RowsOf(after, before[i].name, before[i].pan_card) :
            ~Before(after[j].report_data_and_time, before[i].report_data_and_time)

\* the step is a call on the raw object the call before it read, that call
\* returned INSERTED, REPLACED or SKIPPED, and no collaborator call raises
\* in this one
SameReportAgain ==
    /\ file' = file
    /\ file # NoFile
    /\ result.status \in {Some("INSERTED"), Some("REPLACED"), Some("SKIPPED")}
    /\ NoFailure(calls)
    /\ ~Before(now', now)
    /\ calls' # <<>>
    /\ NoFailure(calls')
    /\ <<table_cibil, processed_data, result, calls>>' # <<table_cibil, processed_data, result, calls>>
          \/ now' = now

\* C27: starting from a table with at most one row per name+PAN, after any
\* sequence of calls of process_single_file made one at a time (calls that
\* end in SKIPPED or ERROR included) the table has at most one row per
\* name+PAN, a name+PAN that had a row still has one, and the day stored
\* for a name+PAN never moves backwards; a call on the report the call
\* before it processed returns SKIPPED and leaves table and bucket as they
\* were.
C27_SequentialCallsKeepOneRow ==
    /\ [](AtMostOnePerKey(table_cibil))
    /\ [][KeysKeptNotOlder(table_cibil, table_cibil')]_vars
    /\ [][SameReportAgain =>
             /\ result'.status = Some("SKIPPED")
             /\ table_cibil' = table_cibil
             /\ processed_data' = processed_data]_vars

\* the first three parts of C27 alone
OneRowPerKeyKept ==
    /\ [](AtMostOnePerKey(table_cibil))
    /\ [][KeysKeptNotOlder(table_cibil, table_cibil')]_vars

\* the last part of C27 for reports whose day the report itself gives
DatedReportAgainIsSkipped ==
    [][(SameReportAgain /\ file.content.facts.report_date # None
                        /\ DateRead(Strip(file.content.facts.report_date[1])) # None) =>
          /\ result'.status = Some("SKIPPED")
          /\ table_cibil' = table_cibil
          /\ processed_data' = processed_data]_vars

(***************************************************************************)
(* Claims about a failing call of process_single_file (checked under       *)
(* SpecSeq).                                                               *)
(***************************************************************************)
\* every row has a url whose object is in the bucket
EveryUrlHasObject(rows, objects) ==
    \A i \in 1..Len(rows) : rows[i].url \in DOMAIN objects

\* the steps after the decision to replace
StepsAfterReplaceDecision == {"delete_object", "delete_all", "upload", "insert", "commit"}

\* the call decided to replace and its step op failed
FailedAfterReplaceDecision(run, op) ==
    /\ run.result.reason = Some("REPLACE_OLD")
    /\ \E i \in 1..Len(run.calls) : run.calls[i] = Failed(op)

\* C29: a failed call of process_single_file leaves persistence as it was.
\* When a step after the decision to replace fails (the deletion of the old
\* object, the deletion of the rows, the upload to processed-data/, the
\* insert or the commit), the transaction is rolled back, the call returns
\* ERROR, the table is as before, and every row still has a url whose
\* object is in the bucket.
C29_FailedCallLeavesPersistence ==
    EveryUrlHasObject(table_cibil, processed_data) =>
        \A f \in ProcFiles : \A failing \in StepsAfterReplaceDecision :
        \A run \in process_single_file(f, failing) :
            FailedAfterReplaceDecision(run, failing) =>
                /\ run.result.status = Some("ERROR")
                /\ Made(run.calls, {"rollback"})
                /\ run.rows = table_cibil
                /\ EveryUrlHasObject(run.rows, run.objects)

\* the part of C29 that holds: a failure of a step other than the deletion
\* of the old object rolls back, returns ERROR and leaves the table as it
\* was
FailedCallLeavesTable ==
    \A f \in SeqFiles : \A failing \in StepsAfterReplaceDecision \ {"delete_object"} :
    \A run \in process_single_file(f, failing) :
        FailedAfterReplaceDecision(run, failing) =>
            /\ run.result.status = Some("ERROR")
            /\ Made(run.calls, {"rollback"})
            /\ run.rows = table_cibil

(***************************************************************************)
(* Two calls of process_single_file at the same time on reports of one     *)
(* name+PAN (two requests of dump_page served by two threads or            *)
(* processes), in which no collaborator call raises.                       *)
(***************************************************************************)
\* a row of 30-11-2025 and its object, as an earlier call left them
OlderRow ==
    <<_build_db_record("ravi kumar", "ABCDE1234F",
                       _build_s3_filename("ravi kumar", "ABCDE1234F", "ravi_nov.pdf"),
                       <<2025, 11, 30>>)>>

InitConc ==
    /\ pc = "concurrent"
    /\ now \in StartDates
    /\ \/ /\ table_cibil = <<>>
          /\ processed_data = <<>>
       \/ /\ table_cibil = OlderRow
          /\ processed_data = (OlderRow[1].url :> OlderRow[1].report_data_and_time)
    /\ result = NoResult
    /\ calls = <<>>
    /\ scan = <<>>
    /\ dump = <<>>
    /\ \E unique_key \in BOOLEAN : \E f1, f2 \in ConcurrentFiles :
          workers = [unique_key |-> unique_key,
                     call |-> <<CallOn(f1, "none"), CallOn(f2, "none")>>]
    /\ file = NoFile
    /\ invoked = <<>>
    /\ outcome = ""
    /\ report = NoReport
    /\ dpd_history = <<>>
    /\ derived = NoDerived
    /\ accounts = <<>>
    /\ final_default = None
    /\ all_enquiries = <<>>
    /\ latest = NoLatest

SpecConc == InitConc /\ [][NextProc]_vars

(***************************************************************************)
(* Claims about two calls at the same time (checked under SpecConc).       *)
(***************************************************************************)
\* both calls have returned
BothReturned == pc = "concurrent" /\ \A w \in Workers : workers.call[w].at = "done"

\* C28: when two calls of process_single_file for reports of one name+PAN
\* run at the same time, each with its own connection and transaction, no
\* interleaving of their steps (read the latest row, delete, upload,
\* insert, commit) leaves more than one row of the name+PAN in the table,
\* and the row that remains is of the newer of the report days.
C28_ConcurrentCallsLeaveNewest ==
    BothReturned =>
        LET kept == RowsOf(table_cibil, "ravi kumar", "ABCDE1234F")
        IN  /\ Cardinality(kept) = 1
            /\ \A i \in kept : \A w \in Workers :
                  ~Before(table_cibil[i].report_data_and_time, workers.call[w].parsed)

\* C28 on a table with a unique constraint on (name, pan_card)
NewestLeftWithUniqueKey ==
    (BothReturned /\ workers.unique_key) =>
        \A i \in RowsOf(table_cibil, "ravi kumar", "ABCDE1234F") : \A w \in Workers :
            ~Before(table_cibil[i].report_data_and_time, workers.call[w].parsed)

\* C28 on a table without the constraint
OneRowLeftWithoutUniqueKey ==
    (BothReturned /\ ~workers.unique_key) =>
        Cardinality(RowsOf(table_cibil, "ravi kumar", "ABCDE1234F")) = 1

====
